---- MODULE Spec2Model ----
(***************************************************************************)
(* Image cache of LightNovelsReader.                                       *)
(*                                                                         *)
(* ImageCacheManager (the file-backed cache whose metadata lives in        *)
(* AsyncStorage under one key) is modelled as a set of asynchronous tasks  *)
(* that interleave at every await of the class.  Strings are sequences of  *)
(* one-character strings so that key building, sanitising and the          *)
(* substring test of clearNovelCache are computed, not assumed.            *)
(***************************************************************************)
EXTENDS Integers, Sequences, FiniteSets, TLC

\* ------------------------------------------------------------------ bounds
MaxTime == 1
MaxCalls == 3
MaxEntries == 3

\* ------------------------------------------------------------- the inputs
Procs == {"t1", "t2"}

TitleA  == <<"A">>
TitleB  == <<"B">>
TitleAB == <<"A", "B">>
ImgX    == <<"x", ".", "p">>

Titles == {TitleA, TitleB, TitleAB}

\* (type, novelTitle, imageName) triples handed to the cache
Keys == { <<"cover", TitleA, <<>>>>,
          <<"content", TitleAB, ImgX>> }

Urls == {"u1", "u2"}

\* the URL each task asks for
UrlOf(p) == IF p = "t1" THEN "u1" ELSE "u2"

\* null as a path; the absent record (its path is falsy, as the code tests)
None    == <<>>
NoRec   == [path |-> None, timestamp |-> 0 - 1, url |-> "none"]
NoFile  == "nofile"
ErrBody == "errbody"

\* ------------------------------------------------------------ pure helpers
AlphaNum == {"A", "B", "x", "p", "c", "o", "v", "e", "r", "n", "t", "j", "g"}

TypeStr(type) ==
  IF type = "cover" THEN <<"c", "o", "v", "e", "r">>
                    ELSE <<"c", "o", "n", "t", "e", "n", "t">>

\* s.replace(/[^a-zA-Z0-9一-鿿]/g, '_')
Sanitize(s) == [i \in 1..Len(s) |-> IF s[i] \in AlphaNum THEN s[i] ELSE "_"]

cacheDir == <<"images/">>

getCacheFilePath(type, novelTitle, imageName) ==
  IF type = "cover"
    THEN cacheDir \o <<"covers/">> \o Sanitize(novelTitle) \o <<"_", "c", "o", "v", "e", "r", ".", "j", "p", "g">>
    ELSE cacheDir \o <<"content/">> \o Sanitize(novelTitle) \o <<"_">> \o Sanitize(imageName) \o <<".", "j", "p", "g">>

\* filePath.substring(0, filePath.lastIndexOf('/'))
DirOf(type) == IF type = "cover" THEN "covers" ELSE "content"

\* `${type}_${novelTitle}_${imageName}`
cacheKeyOf(type, novelTitle, imageName) ==
  TypeStr(type) \o <<"_">> \o novelTitle \o <<"_">> \o imageName

\* String.prototype.includes
Includes(s, t) ==
  \E i \in 0..(Len(s) - Len(t)) : SubSeq(s, i + 1, i + Len(t)) = t

KeyStr(k)  == cacheKeyOf(k[1], k[2], k[3])
PathOf(k)  == getCacheFilePath(k[1], k[2], k[3])
KeyStrs    == {KeyStr(k) : k \in Keys}
PathStrs   == {PathOf(k) : k \in Keys}

\* size reported by getInfoAsync for a file, by what was written into it
SizeOf(content) == IF content = "u1" THEN 1 ELSE IF content = "u2" THEN 2 ELSE 1

EmptyMeta == [ks \in KeyStrs |-> NoRec]

VARIABLES
  store,     \* AsyncStorage['image_cache_metadata'] once parsed: key string -> record
  files,     \* the image files on disk: path -> what was downloaded into it
  dirs,      \* the cache directories that exist
  now,       \* the last value Date.now() returned
  pc,        \* where each task is suspended
  op,        \* the call each task is running: [name, url, key, title]
  metadata,  \* the task's local copy of the metadata
  todo,      \* the key strings the task's loop still has to visit
  res,       \* what the task's last call returned: [path, n, size]
  faulted,   \* an I/O call has failed or a file was removed from outside
  fresh,     \* keys cached successfully with no clear, failure or outside deletion since
  sawFresh,  \* the task's lookup ran entirely while its key was fresh
  calls      \* how many calls have been started

mgrVars == <<store, files, dirs, now, pc, op, metadata, todo, res,
             faulted, fresh, sawFresh, calls>>

\* ImageCacheService.cacheImage: one call of the retrying download with
\* placeholder fallback
VARIABLES
  sPc,        \* "idle", "ensure", "attempt", "wait", "store" or "done"
  sCall,      \* the arguments of the call: [url, useDefaultOnError]
  sUrl,       \* the URL being downloaded now
  sUseDefault,\* useDefaultOnError of the running (possibly recursive) call
  sAttempt,   \* attempts made on sUrl so far
  sTries,     \* attempts made per URL during the call
  sWaits,     \* the delays slept before the retries of sUrl
  sFallbacks, \* how many times the call fell back to the placeholder
  sRecord,    \* the metadata record of the key: its sourceUrl, or "none"
  sMemory,    \* the key is in the memory cache
  sResult     \* what the call returned: "path" or "none"

svcVars == <<sPc, sCall, sUrl, sUseDefault, sAttempt, sTries, sWaits,
             sFallbacks, sRecord, sMemory, sResult>>

\* the size sweep of the eviction policy over one metadata snapshot
VARIABLES
  entries,    \* the metadata store: a sequence of [id, timestamp, size]
  gone,       \* ids of the files the sweep removed from disk
  wPc,        \* "idle", "sweep", "save" or "done"
  wInput,     \* the snapshot the running sweep started from
  wOrder,     \* the snapshot sorted oldest first
  wNext,      \* index in wOrder of the next eviction candidate
  wSize,      \* the aggregate size the sweep still accounts for
  wDeleted,   \* ids removed from the working copy so far
  wWrites     \* how many times the sweep wrote the metadata store

sweepVars == <<entries, gone, wPc, wInput, wOrder, wNext, wSize, wDeleted, wWrites>>

\* the coordinator of the cache service: metadata store, files and memory cache
\* under cacheImage, getCachedPath, the clears and the sweeps
VARIABLES
  cMeta,      \* the metadata store: a sequence of [id, timestamp, size], id a key
  cFiles,     \* the keys whose file is on disk
  cMemory,    \* the keys held by the memory cache
  cNow,       \* the last time the coordinator read the clock
  cTask,      \* each task's running call: [pc, name, key, local, size]
  cSweep,     \* each task's detached size check: [pc, input, order, next, size, deleted]
  cRes,       \* what each task's last call returned: [path, n, error]
  cAlone,     \* the task whose clearAll was the last operation to run, or "nobody"
  cDisturbed, \* a file was removed from outside
  cCalls      \* how many calls have been started

coordVars == <<cMeta, cFiles, cMemory, cNow, cTask, cSweep, cRes, cAlone, cDisturbed, cCalls>>

\* one load run of a display consumer
VARIABLES
  vKind,      \* which consumer runs
  vPc,        \* "idle", "mounted", "lookup", "download" or "done"
  vForce,     \* forceRefresh
  vPreload,   \* preloadOnly
  vCached,    \* what getCachedImagePath returned to the run
  vUri,       \* the image URI state
  vLoading,   \* the loading flag
  vError,     \* the error flag, which renders the placeholder
  vMounted    \* the component is still mounted

viewVars == <<vKind, vPc, vForce, vPreload, vCached, vUri, vLoading, vError, vMounted>>

\* the derivation of cache key and file path for two images
VARIABLES
  kPc,        \* "idle", "picked" or "done"
  kLeft,      \* the (type, novelTitle, imageName) of one image
  kRight,     \* that of the other
  kOut        \* the derived strings: [keyL, keyR, pathL, pathR]

keyVars == <<kPc, kLeft, kRight, kOut>>

\* one display consumer whose source changes while its first load is in flight
VARIABLES
  rKind,      \* which consumer it is
  rForce,     \* forceRefresh
  rSrc,       \* the source the component has now: 0 (not mounted), 1 or 2
  rPc,        \* where the load for source 1 and the load for source 2 are
  rCached,    \* whether getCachedImagePath returned a path to each load
  rUri,       \* the image URI state: 0 for '', else the source the path is of
  rLoading,   \* the loading flag
  rError,     \* the error flag
  rMade       \* what each load has set itself: [uri, error]

raceVars == <<rKind, rForce, rSrc, rPc, rCached, rUri, rLoading, rError, rMade>>

\* the module-level map of the URLs MarkdownImage has loaded
VARIABLES
  imageCache  \* its keys in insertion order

mapVars == <<imageCache>>

\* downloadChapters: the download of a novel's chapters for offline reading
VARIABLES
  isDownloading, \* downloadProgress.isDownloading
  dPc,           \* "idle", "dialog", "scan", "fetch" or "done"
  dExit,         \* how the last call ended
  dStored,       \* the chapters whose content is in local storage
  dScan,         \* allChapters still to be looked up
  dTodo          \* undownloadedChapters still to be fetched

dlVars == <<isDownloading, dPc, dExit, dStored, dScan, dTodo>>

\* the batched settings writes: batchSaveLocalData and flushBatchWrites
VARIABLES
  batchWriteQueue, \* key -> the value waiting to be written, or NoValue
  batchWriteTimer, \* a timeout is armed
  bFlushes,        \* the operations of the flushes suspended in multiSet, oldest first
  bStorage,        \* AsyncStorage: key -> value
  bLast,           \* the value of the last batchSaveLocalData call per key
  bFailed,         \* a multiSet has failed
  bCalls           \* how many batchSaveLocalData calls were made

batchVars == <<batchWriteQueue, batchWriteTimer, bFlushes, bStorage, bLast, bFailed, bCalls>>

appVars == <<keyVars, raceVars, mapVars, dlVars, batchVars>>

vars == <<mgrVars, svcVars, sweepVars, coordVars, viewVars, appVars>>

NoOp == [name |-> "none", url |-> "u1", key |-> <<"cover", TitleA, <<>>>>, title |-> TitleA]
NoRes == [path |-> None, n |-> 0, size |-> 0, thrown |-> FALSE]

MgrInit ==
  /\ store = EmptyMeta
  /\ files = [p \in PathStrs |-> NoFile]
  /\ dirs = {}
  /\ now = 0
  /\ pc = [p \in Procs |-> "idle"]
  /\ op = [p \in Procs |-> NoOp]
  /\ metadata = [p \in Procs |-> EmptyMeta]
  /\ todo = [p \in Procs |-> {}]
  /\ res = [p \in Procs |-> NoRes]
  /\ faulted = FALSE
  /\ fresh = {}
  /\ sawFresh = [p \in Procs |-> FALSE]
  /\ calls = 0

Idle(p) == pc[p] \in {"idle", "done"}
Quiescent == \A p \in Procs : Idle(p)

\* ---------------------------------------------------------- metadata store
\* variant: a failed read hands out what the store holds
getCacheMetadata_Stale(ok) == store

\* getCacheMetadata: the parsed mapping, or {} when getItem or JSON.parse throws
getCacheMetadata(ok) == IF ok THEN store ELSE EmptyMeta

\* variant: the write only adds keys, a record already stored is kept
saveCacheMetadata_Merge(m, ok) ==
  IF ok THEN [ks \in KeyStrs |-> IF store[ks] # NoRec THEN store[ks] ELSE m[ks]]
        ELSE store

\* saveCacheMetadata: setItem replaces the whole mapping; a throw is swallowed
saveCacheMetadata(m, ok) == IF ok THEN m ELSE store

\* history: a failed I/O call disturbs the run, and what was cached before it
\* no longer counts as freshly cached
Disturb(ok) ==
  /\ faulted' = (faulted \/ ~ok)
  /\ fresh' = IF ok THEN fresh ELSE {}
  /\ sawFresh' = [q \in Procs |-> sawFresh[q] /\ ok]

\* history: a clear is at work, nothing counts as freshly cached any more
Cleared(ok) ==
  /\ faulted' = (faulted \/ ~ok)
  /\ fresh' = {}
  /\ sawFresh' = [q \in Procs |-> FALSE]

\* variant: the catch block lets the error escape to the caller
Caught_Rethrows(value) == [value EXCEPT !.thrown = TRUE]

\* catch (error) { logger.error(...); return null; }: the call returns normally
Caught(value) == value

\* a call returns: the task's locals are dropped
Return(p, value) ==
  /\ pc' = [pc EXCEPT ![p] = "done"]
  /\ res' = [res EXCEPT ![p] = value]
  /\ metadata' = [metadata EXCEPT ![p] = EmptyMeta]
  /\ todo' = [todo EXCEPT ![p] = {}]

Goto(p, label) == pc' = [pc EXCEPT ![p] = label]

Begin(p, name, url, k, title, label) ==
  /\ Idle(p)
  /\ calls < MaxCalls
  /\ calls' = calls + 1
  /\ op' = [op EXCEPT ![p] = [name |-> name, url |-> url, key |-> k, title |-> title]]
  /\ Goto(p, label)
  /\ res' = [res EXCEPT ![p] = NoRes]
  /\ UNCHANGED <<store, files, dirs, now, metadata, todo, faulted, fresh, svcVars, sweepVars, coordVars, viewVars, appVars>>

\* the environment: an image file disappears behind the cache's back
DeleteOutOfBand(path) ==
  /\ files[path] # NoFile
  /\ files' = [files EXCEPT ![path] = NoFile]
  /\ Disturb(FALSE)
  /\ UNCHANGED <<store, dirs, now, pc, op, metadata, todo, res, calls, svcVars, sweepVars, coordVars, viewVars, appVars>>

\* ------------------------------------------------------------- cacheImage
StartCacheImage(p, url, k) ==
  /\ Begin(p, "cacheImage", url, k, k[2], "ci_ensure")
  /\ sawFresh' = [sawFresh EXCEPT ![p] = FALSE]

\* the outcomes of the four directory calls of one cacheImage run
DirIO == [rootInfo : BOOLEAN, rootMake : BOOLEAN, subInfo : BOOLEAN, subMake : BOOLEAN]

\* ensureCacheDir: getInfoAsync(cacheDir), makeDirectoryAsync if it is missing;
\* a throw of either is logged and swallowed
ensureCacheDir(d, io) ==
  IF ~io.rootInfo THEN [dirs |-> d, ok |-> FALSE]
  ELSE IF "images" \in d THEN [dirs |-> d, ok |-> TRUE]
  ELSE IF io.rootMake THEN [dirs |-> d \cup {"images"}, ok |-> TRUE]
  ELSE [dirs |-> d, ok |-> FALSE]

\* variant: a directory that could not be created does not stop the run
EnsureSubDir_Proceeds(d, sub, io) ==
  IF ~io.subInfo THEN [dirs |-> d, ok |-> FALSE, go |-> TRUE]
  ELSE IF sub \in d THEN [dirs |-> d, ok |-> TRUE, go |-> TRUE]
  ELSE IF io.subMake THEN [dirs |-> d \cup {"images", sub}, ok |-> TRUE, go |-> TRUE]
  ELSE [dirs |-> d, ok |-> FALSE, go |-> TRUE]

\* getInfoAsync(dirPath), makeDirectoryAsync(dirPath, {intermediates: true})
\* if it is missing; a throw of either ends cacheImage in its catch block
EnsureSubDir(d, sub, io) ==
  IF ~io.subInfo THEN [dirs |-> d, ok |-> FALSE, go |-> FALSE]
  ELSE IF sub \in d THEN [dirs |-> d, ok |-> TRUE, go |-> TRUE]
  ELSE IF io.subMake THEN [dirs |-> d \cup {"images", sub}, ok |-> TRUE, go |-> TRUE]
  ELSE [dirs |-> d, ok |-> FALSE, go |-> FALSE]

\* await ensureCacheDir(), then the check and creation of the file's own
\* directory; the download is reached only if the latter did not throw
CacheImageEnsureDirs(p, io) ==
  /\ pc[p] = "ci_ensure"
  /\ LET root == ensureCacheDir(dirs, io)
         sub  == EnsureSubDir(root.dirs, DirOf(op[p].key[1]), io) IN
     /\ Disturb(root.ok /\ sub.ok)
     /\ dirs' = sub.dirs
     /\ IF sub.go
          THEN /\ Goto(p, "ci_download")
               /\ UNCHANGED <<res, metadata, todo>>
          ELSE Return(p, Caught(NoRes))
  /\ UNCHANGED <<store, files, now, op, calls, svcVars, sweepVars, coordVars, viewVars, appVars>>

\* FileSystem.downloadAsync(imageUrl, filePath): status 200, another status
\* (whose body may or may not land in the file), or a throw
CacheImageDownload(p, outcome) ==
  /\ pc[p] = "ci_download"
  /\ LET path == PathOf(op[p].key) IN
     CASE outcome = "200" ->
            /\ files' = [files EXCEPT ![path] = op[p].url]
            /\ Goto(p, "ci_read")
            /\ UNCHANGED <<res, metadata, todo>>
       [] outcome = "status_body" ->
            /\ files' = [files EXCEPT ![path] = ErrBody]
            /\ Return(p, NoRes)
       [] OTHER ->
            /\ files' = files
            /\ Return(p, IF outcome = "throw" THEN Caught(NoRes) ELSE NoRes)
  /\ UNCHANGED <<store, dirs, now, op, faulted, fresh, sawFresh, calls, svcVars, sweepVars, coordVars, viewVars, appVars>>

\* variant: the record's path is derived from the category alone
NewRecord_PathByCategory(p, t) ==
  [path |-> getCacheFilePath(op[p].key[1], TitleA, <<>>), timestamp |-> t, url |-> op[p].url]

\* the record cacheImage stores for its key; t is what Date.now() returns
NewRecord(p, t) ==
  [path |-> PathOf(op[p].key), timestamp |-> t, url |-> op[p].url]

\* const metadata = await getCacheMetadata(); metadata[cacheKey] = {...}
CacheImageRead(p, ok, t) ==
  /\ pc[p] = "ci_read"
  /\ t \in now..MaxTime
  /\ now' = t
  /\ metadata' = [metadata EXCEPT ![p] =
                    [getCacheMetadata(ok) EXCEPT ![KeyStr(op[p].key)] = NewRecord(p, t)]]
  /\ Disturb(ok)
  /\ Goto(p, "ci_save")
  /\ UNCHANGED <<store, files, dirs, op, todo, res, calls, svcVars, sweepVars, coordVars, viewVars, appVars>>

\* await saveCacheMetadata(metadata); return filePath
CacheImageSave(p, ok) ==
  /\ pc[p] = "ci_save"
  /\ store' = saveCacheMetadata(metadata[p], ok)
  /\ Return(p, [NoRes EXCEPT !.path = PathOf(op[p].key)])
  /\ faulted' = (faulted \/ ~ok)
  /\ fresh' = IF ok THEN fresh \cup {op[p].key} ELSE {}
  /\ sawFresh' = [q \in Procs |-> sawFresh[q] /\ ok]
  /\ UNCHANGED <<files, dirs, now, op, calls, svcVars, sweepVars, coordVars, viewVars, appVars>>

CacheImageStep(p) ==
  \/ \E io \in DirIO : CacheImageEnsureDirs(p, io)
  \/ \E outcome \in {"200", "status_body", "status", "throw"} : CacheImageDownload(p, outcome)
  \/ \E ok \in BOOLEAN, t \in 0..MaxTime : CacheImageRead(p, ok, t)
  \/ \E ok \in BOOLEAN : CacheImageSave(p, ok)

\* ------------------------------------------------------ getCachedImagePath
StartGetCachedImagePath(p, k) ==
  /\ Begin(p, "getCachedImagePath", "u1", k, k[2], "gp_read")
  /\ sawFresh' = [sawFresh EXCEPT ![p] = (k \in fresh)]

\* const metadata = await getCacheMetadata(); const cacheInfo = metadata[cacheKey]
GetPathRead(p, ok) ==
  /\ pc[p] = "gp_read"
  /\ Disturb(ok)
  /\ LET m == getCacheMetadata(ok) IN
     IF m[KeyStr(op[p].key)].path # None
       THEN /\ metadata' = [metadata EXCEPT ![p] = m]
            /\ Goto(p, "gp_info")
            /\ UNCHANGED <<res, todo>>
       ELSE Return(p, NoRes)
  /\ UNCHANGED <<store, files, dirs, now, op, calls, svcVars, sweepVars, coordVars, viewVars, appVars>>

\* variant: the stale record is not deleted from the copy that is written back
GetPathInfo_KeepsRecord(p, ok) ==
  /\ pc[p] = "gp_info"
  /\ Disturb(ok)
  /\ LET ks == KeyStr(op[p].key)
         path == metadata[p][ks].path IN
     IF ~ok THEN Return(p, Caught(NoRes))
     ELSE IF files[path] # NoFile
       THEN Return(p, [NoRes EXCEPT !.path = path])
       ELSE /\ Goto(p, "gp_save")
            /\ UNCHANGED <<res, metadata, todo>>
  /\ UNCHANGED <<store, files, dirs, now, op, calls, svcVars, sweepVars, coordVars, viewVars, appVars>>

\* getInfoAsync(cacheInfo.path): exists, missing (delete metadata[cacheKey]) or a throw
GetPathInfo(p, ok) ==
  /\ pc[p] = "gp_info"
  /\ Disturb(ok)
  /\ LET ks == KeyStr(op[p].key)
         path == metadata[p][ks].path IN
     IF ~ok THEN Return(p, Caught(NoRes))
     ELSE IF files[path] # NoFile
       THEN Return(p, [NoRes EXCEPT !.path = path])
       ELSE /\ metadata' = [metadata EXCEPT ![p][ks] = NoRec]
            /\ Goto(p, "gp_save")
            /\ UNCHANGED <<res, todo>>
  /\ UNCHANGED <<store, files, dirs, now, op, calls, svcVars, sweepVars, coordVars, viewVars, appVars>>

\* await saveCacheMetadata(metadata); return null
GetPathSave(p, ok) ==
  /\ pc[p] = "gp_save"
  /\ store' = saveCacheMetadata(metadata[p], ok)
  /\ Disturb(ok)
  /\ Return(p, NoRes)
  /\ UNCHANGED <<files, dirs, now, op, calls, svcVars, sweepVars, coordVars, viewVars, appVars>>

GetPathStep(p) ==
  \/ \E ok \in BOOLEAN : GetPathRead(p, ok)
  \/ \E ok \in BOOLEAN : GetPathInfo(p, ok)
  \/ \E ok \in BOOLEAN : GetPathSave(p, ok)

\* --------------------------------------------------------- clearNovelCache
StartClearNovelCache(p, title) ==
  /\ Begin(p, "clearNovelCache", "u1", NoOp.key, title, "cl_read")
  /\ sawFresh' = [sawFresh EXCEPT ![p] = FALSE]

\* Object.keys(metadata).filter(key => key.includes(novelTitle))
keysToDelete(m, novelTitle) ==
  {ks \in KeyStrs : m[ks] # NoRec /\ Includes(ks, novelTitle)}

\* const metadata = await getCacheMetadata(); let deletedCount = 0; keysToDelete
ClearRead(p, ok) ==
  /\ pc[p] = "cl_read"
  /\ Cleared(ok)
  /\ LET m == getCacheMetadata(ok) IN
     /\ metadata' = [metadata EXCEPT ![p] = m]
     /\ todo' = [todo EXCEPT ![p] = keysToDelete(m, op[p].title)]
  /\ Goto(p, "cl_loop")
  /\ UNCHANGED <<store, files, dirs, now, op, res, calls, svcVars, sweepVars, coordVars, viewVars, appVars>>

\* variant: a failed deletion is counted and its record dropped as well
ClearDelete_CountsFailures(p, ks, ok) ==
  /\ pc[p] = "cl_loop"
  /\ ks \in todo[p]
  /\ ok \/ files[metadata[p][ks].path] # NoFile
  /\ Cleared(ok)
  /\ todo' = [todo EXCEPT ![p] = @ \ {ks}]
  /\ LET path == metadata[p][ks].path IN
     /\ files' = IF ok THEN [files EXCEPT ![path] = NoFile] ELSE files
     /\ metadata' = [metadata EXCEPT ![p][ks] = NoRec]
     /\ res' = [res EXCEPT ![p].n = @ + 1]
  /\ UNCHANGED <<store, dirs, now, pc, op, calls, svcVars, sweepVars, coordVars, viewVars, appVars>>

\* one turn of the loop: deleteAsync(cacheInfo.path) throws when the file is
\* missing or cannot be removed; only a deleted file drops the record
ClearDelete(p, ks, ok) ==
  /\ pc[p] = "cl_loop"
  /\ ks \in todo[p]
  /\ ok \/ files[metadata[p][ks].path] # NoFile
  /\ Cleared(ok)
  /\ todo' = [todo EXCEPT ![p] = @ \ {ks}]
  /\ LET path == metadata[p][ks].path IN
     IF ok /\ files[path] # NoFile
       THEN /\ files' = [files EXCEPT ![path] = NoFile]
            /\ metadata' = [metadata EXCEPT ![p][ks] = NoRec]
            /\ res' = [res EXCEPT ![p].n = @ + 1]
       ELSE UNCHANGED <<files, metadata, res>>
  /\ UNCHANGED <<store, dirs, now, pc, op, calls, svcVars, sweepVars, coordVars, viewVars, appVars>>

\* variant: the metadata is written back whether or not anything was deleted
ClearFinish_AlwaysSaves(p, ok) ==
  /\ pc[p] = "cl_loop"
  /\ todo[p] = {}
  /\ store' = saveCacheMetadata(metadata[p], ok)
  /\ Cleared(ok)
  /\ Return(p, res[p])
  /\ UNCHANGED <<files, dirs, now, op, calls, svcVars, sweepVars, coordVars, viewVars, appVars>>

\* if (deletedCount > 0) await saveCacheMetadata(metadata); return deletedCount
ClearFinish(p, ok) ==
  /\ pc[p] = "cl_loop"
  /\ todo[p] = {}
  /\ IF res[p].n > 0
       THEN store' = saveCacheMetadata(metadata[p], ok)
       ELSE ok /\ store' = store
  /\ Cleared(ok)
  /\ Return(p, res[p])
  /\ UNCHANGED <<files, dirs, now, op, calls, svcVars, sweepVars, coordVars, viewVars, appVars>>

ClearStep(p) ==
  \/ \E ok \in BOOLEAN : ClearRead(p, ok)
  \/ \E ks \in KeyStrs, ok \in BOOLEAN : ClearDelete(p, ks, ok)
  \/ \E ok \in BOOLEAN : ClearFinish(p, ok)

\* ----------------------------------------------------------- getCacheStats
StartGetCacheStats(p) ==
  /\ Begin(p, "getCacheStats", "u1", NoOp.key, NoOp.title, "st_read")
  /\ sawFresh' = [sawFresh EXCEPT ![p] = FALSE]

\* const metadata = await getCacheMetadata(); totalFiles = 0; totalSize = 0
StatsRead(p, ok) ==
  /\ pc[p] = "st_read"
  /\ Disturb(ok)
  /\ LET m == getCacheMetadata(ok) IN
     /\ metadata' = [metadata EXCEPT ![p] = m]
     /\ todo' = [todo EXCEPT ![p] = {ks \in KeyStrs : m[ks].path # None}]
  /\ Goto(p, "st_loop")
  /\ UNCHANGED <<store, files, dirs, now, op, res, calls, svcVars, sweepVars, coordVars, viewVars, appVars>>

\* variant: every record that can be stat-ed is counted, its file missing or not
StatsInfo_CountsMissing(p, ks, ok) ==
  /\ pc[p] = "st_loop"
  /\ ks \in todo[p]
  /\ Disturb(ok)
  /\ todo' = [todo EXCEPT ![p] = @ \ {ks}]
  /\ LET path == metadata[p][ks].path IN
     IF ok
       THEN res' = [res EXCEPT ![p].n = @ + 1, ![p].size = @ + SizeOf(files[path])]
       ELSE res' = res
  /\ UNCHANGED <<store, files, dirs, now, pc, op, metadata, calls, svcVars, sweepVars, coordVars, viewVars, appVars>>

\* one turn of the loop: getInfoAsync(cacheInfo.path); a throw skips the record
StatsInfo(p, ks, ok) ==
  /\ pc[p] = "st_loop"
  /\ ks \in todo[p]
  /\ Disturb(ok)
  /\ todo' = [todo EXCEPT ![p] = @ \ {ks}]
  /\ LET path == metadata[p][ks].path IN
     IF ok /\ files[path] # NoFile
       THEN res' = [res EXCEPT ![p].n = @ + 1, ![p].size = @ + SizeOf(files[path])]
       ELSE res' = res
  /\ UNCHANGED <<store, files, dirs, now, pc, op, metadata, calls, svcVars, sweepVars, coordVars, viewVars, appVars>>

\* return { totalFiles, totalSize }
StatsFinish(p) ==
  /\ pc[p] = "st_loop"
  /\ todo[p] = {}
  /\ Return(p, res[p])
  /\ UNCHANGED <<store, files, dirs, now, op, faulted, fresh, sawFresh, calls, svcVars, sweepVars, coordVars, viewVars, appVars>>

StatsStep(p) ==
  \/ \E ok \in BOOLEAN : StatsRead(p, ok)
  \/ \E ks \in KeyStrs, ok \in BOOLEAN : StatsInfo(p, ks, ok)
  \/ StatsFinish(p)

\* ============================================== ImageCacheService.cacheImage
\* The retrying download and the placeholder fallback of the service the
\* components call with useDefaultOnError.
RetryCount == 3
BaseDelay == 1000
DefaultImageUrl == "placeholder"
SvcUrls == {"u1", "u2", DefaultImageUrl}

\* variant: the same delay before every retry
RetryDelay_Constant(attempt) == BaseDelay

\* wait `attempt * baseDelay` before the next attempt
RetryDelay(attempt) == attempt * BaseDelay

\* variant: the placeholder test is inverted
ShouldFallback_Inverted(url, useDefaultOnError) ==
  useDefaultOnError /\ url = DefaultImageUrl

\* variant: useDefaultOnError is not consulted
ShouldFallback_IgnoresFlag(url, useDefaultOnError) ==
  url # DefaultImageUrl

\* fall back only when allowed and not already downloading the placeholder
ShouldFallback(url, useDefaultOnError) ==
  useDefaultOnError /\ url # DefaultImageUrl

\* the attempts of the running call in order: [url, ok]
AttemptsOn(url) == {i \in 1..Len(sTries) : sTries[i].url = url}
Succeeded(url)  == \E i \in AttemptsOn(url) : sTries[i].ok

SvcInit ==
  /\ sPc = "idle"
  /\ sCall = [url |-> "u1", useDefaultOnError |-> TRUE]
  /\ sUrl = "u1"
  /\ sUseDefault = TRUE
  /\ sAttempt = 0
  /\ sTries = <<>>
  /\ sWaits = <<>>
  /\ sFallbacks = 0
  /\ sRecord = "none"
  /\ sMemory = FALSE
  /\ sResult = "none"

\* cacheImage(url, category, owner, imageName, useDefaultOnError)
SvcCacheImage(url, useDefaultOnError) ==
  /\ sPc \in {"idle", "done"}
  /\ sPc' = "ensure"
  /\ sCall' = [url |-> url, useDefaultOnError |-> useDefaultOnError]
  /\ sUrl' = url
  /\ sUseDefault' = useDefaultOnError
  /\ sAttempt' = 0
  /\ sTries' = <<>>
  /\ sWaits' = <<>>
  /\ sFallbacks' = 0
  /\ sResult' = "none"
  /\ UNCHANGED <<sRecord, sMemory, mgrVars, sweepVars, coordVars, viewVars, appVars>>

\* ensure the cache root and the category directory exist
SvcEnsureDirs ==
  /\ sPc = "ensure"
  /\ sPc' = "attempt"
  /\ UNCHANGED <<sCall, sUrl, sUseDefault, sAttempt, sTries, sWaits, sFallbacks,
                 sRecord, sMemory, sResult, mgrVars, sweepVars, coordVars, viewVars, appVars>>

\* one download attempt of the Downloader and what follows it: success goes
\* on to store the result; a failure is retried while attempts remain, then
\* the whole operation is retried once with the placeholder, else none
SvcAttempt(ok) ==
  /\ sPc = "attempt"
  /\ sTries' = Append(sTries, [url |-> sUrl, ok |-> ok])
  /\ IF ok
       THEN /\ sAttempt' = sAttempt + 1
            /\ sPc' = "store"
            /\ UNCHANGED <<sUrl, sUseDefault, sWaits, sFallbacks, sRecord, sResult>>
       ELSE IF sAttempt + 1 < RetryCount
       THEN /\ sAttempt' = sAttempt + 1
            /\ sPc' = "wait"
            /\ UNCHANGED <<sUrl, sUseDefault, sWaits, sFallbacks, sRecord, sResult>>
       ELSE IF ShouldFallback(sUrl, sUseDefault)
       THEN /\ sUrl' = DefaultImageUrl
            /\ sUseDefault' = FALSE
            /\ sAttempt' = 0
            /\ sWaits' = <<>>
            /\ sFallbacks' = sFallbacks + 1
            /\ sPc' = "ensure"
            /\ UNCHANGED <<sRecord, sResult>>
       ELSE /\ sAttempt' = sAttempt + 1
            /\ sResult' = "none"
            /\ sPc' = "done"
            /\ UNCHANGED <<sUrl, sUseDefault, sWaits, sFallbacks, sRecord>>
  /\ UNCHANGED <<sCall, sMemory, mgrVars, sweepVars, coordVars, viewVars, appVars>>

\* on success: write the record, insert into the memory cache, return the path
SvcStore ==
  /\ sPc = "store"
  /\ sRecord' = sUrl
  /\ sMemory' = TRUE
  /\ sResult' = "path"
  /\ sPc' = "done"
  /\ UNCHANGED <<sCall, sUrl, sUseDefault, sAttempt, sTries, sWaits, sFallbacks,
                 mgrVars, sweepVars, coordVars, viewVars, appVars>>

\* the delay between a failed attempt and the next one
SvcWait ==
  /\ sPc = "wait"
  /\ sWaits' = Append(sWaits, RetryDelay(sAttempt))
  /\ sPc' = "attempt"
  /\ UNCHANGED <<sCall, sUrl, sUseDefault, sAttempt, sTries, sFallbacks,
                 sRecord, sMemory, sResult, mgrVars, sweepVars, coordVars, viewVars, appVars>>

\* ================================================================ size sweep
MaxFileCacheSize == 10
HysteresisPercent == 70
SweepTarget == (MaxFileCacheSize * HysteresisPercent) \div 100

Sizes == {2, 3, 5, 6}
Stamps == 0..MaxTime

RECURSIVE SumSizes(_)
SumSizes(s) == IF s = <<>> THEN 0 ELSE s[1].size + SumSizes(Tail(s))

\* e goes after every record that is not newer than it (Array.sort is stable)
InsertByTimestamp(sorted, e) ==
  LET n == Cardinality({i \in 1..Len(sorted) : sorted[i].timestamp <= e.timestamp})
  IN  SubSeq(sorted, 1, n) \o <<e>> \o SubSeq(sorted, n + 1, Len(sorted))

\* variant: the records are taken in stored order
SortByTimestamp_Unsorted(s) == s

\* all records ascending by timestamp, oldest first
RECURSIVE SortByTimestamp(_)
SortByTimestamp(s) ==
  IF s = <<>> THEN <<>>
  ELSE InsertByTimestamp(SortByTimestamp(SubSeq(s, 1, Len(s) - 1)), s[Len(s)])

Without(s, ids) == SelectSeq(s, LAMBDA e : e.id \notin ids)

EntrySeqs ==
  UNION {[1..n -> Stamps \X Sizes] : n \in 0..MaxEntries}

SweepIdle ==
  /\ entries = <<>>
  /\ gone = {}
  /\ wPc = "idle"
  /\ wInput = <<>>
  /\ wOrder = <<>>
  /\ wNext = 1
  /\ wSize = 0
  /\ wDeleted = {}
  /\ wWrites = 0

\* a metadata store left by earlier cache writes
SweepInit ==
  /\ \E f \in EntrySeqs :
       entries = [i \in 1..Len(f) |-> [id |-> i, timestamp |-> f[i][1], size |-> f[i][2]]]
  /\ gone = {}
  /\ wPc = "idle"
  /\ wInput = <<>>
  /\ wOrder = <<>>
  /\ wNext = 1
  /\ wSize = 0
  /\ wDeleted = {}
  /\ wWrites = 0

\* sum all known sizes; only above the maximum is anything sorted and evicted
SweepStart ==
  /\ wPc \in {"idle", "done"}
  /\ wInput' = entries
  /\ wSize' = SumSizes(entries)
  /\ wDeleted' = {}
  /\ wNext' = 1
  /\ IF SumSizes(entries) > MaxFileCacheSize
       THEN /\ wOrder' = SortByTimestamp(entries)
            /\ wPc' = "sweep"
       ELSE /\ wOrder' = <<>>
            /\ wPc' = "save"
  /\ UNCHANGED <<entries, gone, wWrites, mgrVars, svcVars, coordVars, viewVars, appVars>>

\* delete the oldest remaining record until the aggregate is down to the
\* target; a file that cannot be deleted still loses its record
SweepEvict(ok) ==
  /\ wPc = "sweep"
  /\ wSize > SweepTarget
  /\ wNext <= Len(wOrder)
  /\ gone' = IF ok THEN gone \cup {wOrder[wNext].id} ELSE gone
  /\ wDeleted' = wDeleted \cup {wOrder[wNext].id}
  /\ wSize' = wSize - wOrder[wNext].size
  /\ wNext' = wNext + 1
  /\ UNCHANGED <<entries, wPc, wInput, wOrder, wWrites, mgrVars, svcVars, coordVars, viewVars, appVars>>

\* the loop is over
SweepStop ==
  /\ wPc = "sweep"
  /\ wSize <= SweepTarget \/ wNext > Len(wOrder)
  /\ wPc' = "save"
  /\ UNCHANGED <<entries, gone, wInput, wOrder, wNext, wSize, wDeleted, wWrites,
                 mgrVars, svcVars, coordVars, viewVars, appVars>>

\* persist the working copy only if something was deleted
SweepSave ==
  /\ wPc = "save"
  /\ IF wDeleted # {}
       THEN /\ entries' = Without(wInput, wDeleted)
            /\ wWrites' = wWrites + 1
       ELSE UNCHANGED <<entries, wWrites>>
  /\ wPc' = "done"
  /\ UNCHANGED <<gone, wInput, wOrder, wNext, wSize, wDeleted, mgrVars, svcVars, coordVars, viewVars, appVars>>

\* ================================================================= age sweep
MaxFileCacheAge == 1

\* the clock values an age sweep can run at
SweepTimes == 0..(MaxTime + MaxFileCacheAge + 1)

\* variant: a record exactly maxFileCacheAge old counts as expired
Expired_Inclusive(e, t) == e.timestamp <= t - MaxFileCacheAge

\* the record's timestamp is older than now - maxFileCacheAge
Expired(e, t) == e.timestamp < t - MaxFileCacheAge

\* read the clock and the metadata snapshot
AgeSweepStart(t) ==
  /\ wPc \in {"idle", "done"}
  /\ t >= now
  /\ \A i \in 1..Len(entries) : entries[i].timestamp <= t
  /\ now' = t
  /\ wInput' = entries
  /\ wOrder' = entries
  /\ wNext' = 1
  /\ wSize' = 0
  /\ wDeleted' = {}
  /\ wPc' = "age"
  /\ UNCHANGED <<entries, gone, wWrites, store, files, dirs, pc, op, metadata, todo, res,
                 faulted, fresh, sawFresh, calls, svcVars, coordVars, viewVars, appVars>>

\* visit the next record: an expired one loses its file and its record; a
\* file that cannot be deleted still loses its record
AgeSweepVisit(ok) ==
  /\ wPc = "age"
  /\ wNext <= Len(wOrder)
  /\ IF Expired(wOrder[wNext], now)
       THEN /\ gone' = IF ok THEN gone \cup {wOrder[wNext].id} ELSE gone
            /\ wDeleted' = wDeleted \cup {wOrder[wNext].id}
       ELSE /\ ok
            /\ UNCHANGED <<gone, wDeleted>>
  /\ wNext' = wNext + 1
  /\ UNCHANGED <<entries, wPc, wInput, wOrder, wSize, wWrites, mgrVars, svcVars, coordVars, viewVars, appVars>>

\* every record was visited
AgeSweepStop ==
  /\ wPc = "age"
  /\ wNext > Len(wOrder)
  /\ wPc' = "save"
  /\ UNCHANGED <<entries, gone, wInput, wOrder, wNext, wSize, wDeleted, wWrites,
                 mgrVars, svcVars, coordVars, viewVars, appVars>>

\* ============================================================== coordinator
\* The cache service as its callers see it: cacheImage with its detached size
\* check, getCachedPath over the memory cache, clearOwnerCache, clearAll and
\* the age sweep, all on one metadata store.
NoTask  == [pc |-> "idle", name |-> "none", key |-> NoOp.key, local |-> <<>>, size |-> 0]
NoCheck == [pc |-> "idle", input |-> <<>>, order |-> <<>>, next |-> 1, size |-> 0, deleted |-> {}]
NoCRes  == [path |-> None, n |-> 0, error |-> FALSE]

\* sizes a downloaded image can have
CoordSizes == {3, 6}

CoordInit ==
  /\ cMeta = <<>>
  /\ cFiles = {}
  /\ cMemory = {}
  /\ cNow = 0
  /\ cTask = [p \in Procs |-> NoTask]
  /\ cSweep = [p \in Procs |-> NoCheck]
  /\ cRes = [p \in Procs |-> NoCRes]
  /\ cAlone = "nobody"
  /\ cDisturbed = FALSE
  /\ cCalls = 0

HasEntry(m, k) == \E i \in 1..Len(m) : m[i].id = k

\* write or overwrite the record of e.id; a key already stored keeps its place
PutEntry(m, e) ==
  IF HasEntry(m, e.id)
    THEN [i \in 1..Len(m) |-> IF m[i].id = e.id THEN e ELSE m[i]]
    ELSE Append(m, e)

\* the lookup through the metadata store and the file check alone
StoreLookup(k) == IF HasEntry(cMeta, k) /\ k \in cFiles THEN PathOf(k) ELSE None

\* getCachedPath: the memory cache first, then the store
MemoryLookup(k) == IF k \in cMemory THEN PathOf(k) ELSE StoreLookup(k)

\* getStats: the records whose file exists
StatsFileCount == Cardinality({i \in 1..Len(cMeta) : cMeta[i].id \in cFiles})

TaskIdle(p)  == cTask[p].pc \in {"idle", "done"}
AllQuiet     == \A p \in Procs : TaskIdle(p) /\ cSweep[p].pc = "idle"

\* a call or a size check is under way
Busy == \E p \in Procs : ~TaskIdle(p) \/ cSweep[p].pc = "evict"

\* a call that runs in one step
CoordCall(p, name, k, result) ==
  /\ TaskIdle(p)
  /\ cCalls < MaxCalls
  /\ cCalls' = cCalls + 1
  /\ cTask' = [cTask EXCEPT ![p] = [NoTask EXCEPT !.pc = "done", !.name = name, !.key = k]]
  /\ cRes' = [cRes EXCEPT ![p] = result]
  /\ cAlone' = "nobody"

\* the environment: an image file disappears behind the cache's back
CoordDeleteOutOfBand(k) ==
  /\ k \in cFiles
  /\ cFiles' = cFiles \ {k}
  /\ cDisturbed' = TRUE
  /\ cAlone' = "nobody"
  /\ UNCHANGED <<cMeta, cMemory, cNow, cTask, cSweep, cRes, cCalls,
                 mgrVars, svcVars, sweepVars, viewVars, appVars>>

\* ---- cacheImage
\* steps 1 and 2: the destination path is fixed by the key, directories exist
CoordCacheImage(p, k) ==
  /\ TaskIdle(p)
  /\ cSweep[p].pc = "idle"
  /\ cCalls < MaxCalls
  /\ cCalls' = cCalls + 1
  /\ cTask' = [cTask EXCEPT ![p] = [NoTask EXCEPT !.pc = "download", !.name = "cacheImage", !.key = k]]
  /\ cRes' = [cRes EXCEPT ![p] = NoCRes]
  /\ cAlone' = "nobody"
  /\ UNCHANGED <<cDisturbed, cMeta, cFiles, cMemory, cNow, cSweep, mgrVars, svcVars, sweepVars, viewVars, appVars>>

\* steps 3 and 5: the Downloader (with its retries and the placeholder) has
\* written the file, which is then stat-ed for its size, or has given up
CoordDownload(p, ok, size) ==
  /\ cTask[p].pc = "download"
  /\ IF ok
       THEN /\ cFiles' = cFiles \cup {cTask[p].key}
            /\ cTask' = [cTask EXCEPT ![p].pc = "read", ![p].size = size]
       ELSE /\ size = 3
            /\ cFiles' = cFiles
            /\ cTask' = [cTask EXCEPT ![p].pc = "done"]
  /\ cAlone' = "nobody"
  /\ UNCHANGED <<cMeta, cMemory, cNow, cSweep, cRes, cDisturbed, cCalls, mgrVars, svcVars, sweepVars, viewVars, appVars>>

\* step 4: read the whole mapping
CoordRead(p) ==
  /\ cTask[p].pc = "read"
  /\ cTask' = [cTask EXCEPT ![p].pc = "write", ![p].local = cMeta]
  /\ cAlone' = "nobody"
  /\ UNCHANGED <<cMeta, cFiles, cMemory, cNow, cSweep, cRes, cDisturbed, cCalls, mgrVars, svcVars, sweepVars, viewVars, appVars>>

\* variant: the write does not trigger a size check
CoordWrite_NoCheck(p, t) ==
  /\ cTask[p].pc = "write"
  /\ t \in cNow..MaxTime
  /\ cNow' = t
  /\ cMeta' = PutEntry(cTask[p].local, [id |-> cTask[p].key, timestamp |-> t, size |-> cTask[p].size])
  /\ cMemory' = cMemory \cup {cTask[p].key}
  /\ cSweep' = cSweep
  /\ cRes' = [cRes EXCEPT ![p] = [NoCRes EXCEPT !.path = PathOf(cTask[p].key)]]
  /\ cTask' = [cTask EXCEPT ![p].pc = "done", ![p].local = <<>>]
  /\ cAlone' = "nobody"
  /\ UNCHANGED <<cFiles, cDisturbed, cCalls, mgrVars, svcVars, sweepVars, viewVars, appVars>>

\* step 4: write the record with a fresh timestamp, insert into the memory
\* cache, trigger the size check without awaiting it, return the path
CoordWrite(p, t) ==
  /\ cTask[p].pc = "write"
  /\ t \in cNow..MaxTime
  /\ cNow' = t
  /\ cMeta' = PutEntry(cTask[p].local, [id |-> cTask[p].key, timestamp |-> t, size |-> cTask[p].size])
  /\ cMemory' = cMemory \cup {cTask[p].key}
  /\ cSweep' = [cSweep EXCEPT ![p] = [NoCheck EXCEPT !.pc = "start"]]
  /\ cRes' = [cRes EXCEPT ![p] = [NoCRes EXCEPT !.path = PathOf(cTask[p].key)]]
  /\ cTask' = [cTask EXCEPT ![p].pc = "done", ![p].local = <<>>]
  /\ cAlone' = "nobody"
  /\ UNCHANGED <<cFiles, cDisturbed, cCalls, mgrVars, svcVars, sweepVars, viewVars, appVars>>

\* ---- the detached size check
\* sum all known sizes; only above the maximum is anything sorted and evicted
CheckStart(p) ==
  /\ cSweep[p].pc = "start"
  /\ cSweep' = [cSweep EXCEPT ![p] =
       IF SumSizes(cMeta) > MaxFileCacheSize
         THEN [pc |-> "evict", input |-> cMeta, order |-> SortByTimestamp(cMeta),
               next |-> 1, size |-> SumSizes(cMeta), deleted |-> {}]
         ELSE NoCheck]
  /\ cAlone' = "nobody"
  /\ UNCHANGED <<cDisturbed, cMeta, cFiles, cMemory, cNow, cTask, cRes, cCalls, mgrVars, svcVars, sweepVars, viewVars, appVars>>

\* delete the oldest remaining record; a file that cannot be deleted still
\* loses its record
CheckEvict(p, ok) ==
  /\ cSweep[p].pc = "evict"
  /\ cSweep[p].size > SweepTarget
  /\ cSweep[p].next <= Len(cSweep[p].order)
  /\ LET e == cSweep[p].order[cSweep[p].next] IN
     /\ cFiles' = IF ok THEN cFiles \ {e.id} ELSE cFiles
     /\ cSweep' = [cSweep EXCEPT ![p].deleted = @ \cup {e.id},
                                 ![p].size = @ - e.size,
                                 ![p].next = @ + 1]
  /\ cAlone' = "nobody"
  /\ UNCHANGED <<cMeta, cMemory, cNow, cTask, cRes, cDisturbed, cCalls, mgrVars, svcVars, sweepVars, viewVars, appVars>>

\* the aggregate is down to the target: persist the working copy
CheckSave(p) ==
  /\ cSweep[p].pc = "evict"
  /\ cSweep[p].size <= SweepTarget \/ cSweep[p].next > Len(cSweep[p].order)
  /\ cMeta' = Without(cSweep[p].input, cSweep[p].deleted)
  /\ cSweep' = [cSweep EXCEPT ![p] = NoCheck]
  /\ cAlone' = "nobody"
  /\ UNCHANGED <<cFiles, cMemory, cNow, cTask, cRes, cDisturbed, cCalls, mgrVars, svcVars, sweepVars, viewVars, appVars>>

\* ---- getCachedPath
\* memory cache, then metadata store; a record whose file is gone is purged, a
\* real hit is promoted into the memory cache
CoordGetCachedPath(p, k) ==
  /\ CoordCall(p, "getCachedPath", k, [NoCRes EXCEPT !.path = MemoryLookup(k)])
  /\ IF k \in cMemory
       THEN UNCHANGED <<cMeta, cMemory>>
       ELSE IF HasEntry(cMeta, k) /\ k \notin cFiles
         THEN cMeta' = Without(cMeta, {k}) /\ cMemory' = cMemory
         ELSE /\ cMeta' = cMeta
              /\ cMemory' = IF HasEntry(cMeta, k) THEN cMemory \cup {k} ELSE cMemory
  /\ UNCHANGED <<cDisturbed, cFiles, cNow, cSweep, mgrVars, svcVars, sweepVars, viewVars, appVars>>

\* ---- clearOwnerCache
\* the records whose key references the owner
OwnerKeys(m, owner) == {k \in Keys : HasEntry(m, k) /\ Includes(KeyStr(k), owner)}

\* every matching record and file is deleted, except those whose file
\* deletion fails; matching memory cache entries are removed
CoordClearOwnerCache(p, owner, failed) ==
  /\ failed \subseteq (OwnerKeys(cMeta, owner) \cap cFiles)
  /\ LET deleted == OwnerKeys(cMeta, owner) \ failed IN
     /\ CoordCall(p, "clearOwnerCache", NoOp.key, [NoCRes EXCEPT !.n = Cardinality(deleted)])
     /\ cMeta' = Without(cMeta, deleted)
     /\ cFiles' = cFiles \ deleted
     /\ cMemory' = cMemory \ {k \in Keys : Includes(KeyStr(k), owner)}
  /\ UNCHANGED <<cDisturbed, cNow, cSweep, mgrVars, svcVars, sweepVars, viewVars, appVars>>

\* ---- clearAll
\* variant: the memory cache is left as it is
ClearAllStart_KeepsMemory(p) ==
  /\ TaskIdle(p)
  /\ cCalls < MaxCalls
  /\ cCalls' = cCalls + 1
  /\ cTask' = [cTask EXCEPT ![p] = [NoTask EXCEPT !.pc = "rmdir", !.name = "clearAll"]]
  /\ cRes' = [cRes EXCEPT ![p] = NoCRes]
  /\ cMemory' = cMemory
  /\ cAlone' = p
  /\ UNCHANGED <<cDisturbed, cMeta, cFiles, cNow, cSweep, mgrVars, svcVars, sweepVars, viewVars, appVars>>

\* empty the memory cache
ClearAllStart(p) ==
  /\ TaskIdle(p)
  /\ cCalls < MaxCalls
  /\ cCalls' = cCalls + 1
  /\ cTask' = [cTask EXCEPT ![p] = [NoTask EXCEPT !.pc = "rmdir", !.name = "clearAll"]]
  /\ cRes' = [cRes EXCEPT ![p] = NoCRes]
  /\ cMemory' = {}
  /\ cAlone' = p
  /\ UNCHANGED <<cDisturbed, cMeta, cFiles, cNow, cSweep, mgrVars, svcVars, sweepVars, viewVars, appVars>>

\* delete the cache root directory; a failure surfaces to the caller
ClearAllDeleteDir(p, ok) ==
  /\ cTask[p].pc = "rmdir"
  /\ IF ok
       THEN /\ cFiles' = {}
            /\ cTask' = [cTask EXCEPT ![p].pc = "rmmeta"]
            /\ cRes' = cRes
       ELSE /\ cFiles' = cFiles
            /\ cTask' = [cTask EXCEPT ![p].pc = "done"]
            /\ cRes' = [cRes EXCEPT ![p].error = TRUE]
  /\ UNCHANGED <<cMeta, cMemory, cNow, cSweep, cAlone, cDisturbed, cCalls, mgrVars, svcVars, sweepVars, viewVars, appVars>>

\* clear the metadata store
ClearAllClearMeta(p) ==
  /\ cTask[p].pc = "rmmeta"
  /\ cMeta' = <<>>
  /\ cTask' = [cTask EXCEPT ![p].pc = "done"]
  /\ UNCHANGED <<cFiles, cMemory, cNow, cSweep, cRes, cAlone, cDisturbed, cCalls, mgrVars, svcVars, sweepVars, viewVars, appVars>>

\* ---- the age sweep
\* the keys whose record is older than t - maxFileCacheAge
ExpiredKeys(m, t) == {k \in Keys : \E i \in 1..Len(m) : m[i].id = k /\ Expired(m[i], t)}

\* run at service initialization, in a new process whose memory cache is
\* empty: every expired record is removed, whether or not its file could be
\* deleted
CoordAgeSweep(p, t, failed) ==
  /\ AllQuiet
  /\ \A i \in 1..Len(cMeta) : cMeta[i].timestamp <= t
  /\ t >= cNow
  /\ failed \subseteq (ExpiredKeys(cMeta, t) \cap cFiles)
  /\ CoordCall(p, "ageSweep", NoOp.key, [NoCRes EXCEPT !.n = Cardinality(ExpiredKeys(cMeta, t))])
  /\ cMeta' = Without(cMeta, ExpiredKeys(cMeta, t))
  /\ cFiles' = cFiles \ (ExpiredKeys(cMeta, t) \ failed)
  /\ cMemory' = {}
  /\ UNCHANGED <<cDisturbed, cNow, cSweep, mgrVars, svcVars, sweepVars, viewVars, appVars>>

\* ================================================================ consumers
\* The display consumers and their load runs.  useImageCache and CachedImage
\* call ImageCacheService, whose calls may throw; the cover image of NovelCard
\* (NovelCardImage here, CachedImage in the source), CachedCoverImage and
\* MarkdownImage call ImageCacheManager, whose calls return null instead.
Kinds == {"useImageCache", "CachedImage", "NovelCardImage", "CachedCoverImage", "MarkdownImage"}
ServiceKinds == {"useImageCache", "CachedImage"}

\* what a lookup or a download hands back: a path (the cached file or, from
\* the service, its default image), null, or an exception
CachedPath == getCacheFilePath("cover", TitleA, <<>>)
DefaultPath == <<"d", "e", "f", "a", "u", "l", "t">>
ViewResults ==
  {[path |-> x, thrown |-> FALSE] : x \in {CachedPath, DefaultPath, None}} \cup {[path |-> None, thrown |-> TRUE]}

\* only the service throws, and only the service hands out its default image
CanReturn(kind, result) ==
  (result.thrown \/ result.path = DefaultPath) => kind \in ServiceKinds

\* `file://${path}`
FileUri(path) == <<"file://">> \o path

\* the URI a consumer displays for a path
ShownUri(kind, path) == IF kind \in {"CachedCoverImage", "MarkdownImage"} THEN path ELSE FileUri(path)

\* NovelCard's cover image keeps no loading flag
HasLoading(kind) == kind # "NovelCardImage"

\* useState('') / useState(true) / useState(false); null as a URI is ''
ViewInit ==
  /\ vKind = "useImageCache"
  /\ vPc = "idle"
  /\ vForce = FALSE
  /\ vPreload = FALSE
  /\ vCached = None
  /\ vUri = None
  /\ vLoading = TRUE
  /\ vError = FALSE
  /\ vMounted = TRUE

\* a component of the given kind is mounted with fresh state
Mount(kind) ==
  /\ vPc \in {"idle", "done"}
  /\ vKind' = kind
  /\ vPc' = "mounted"
  /\ vForce' = FALSE
  /\ vPreload' = FALSE
  /\ vCached' = None
  /\ vUri' = None
  /\ vLoading' = HasLoading(kind)
  /\ vError' = FALSE
  /\ vMounted' = TRUE
  /\ UNCHANGED <<mgrVars, svcVars, sweepVars, coordVars, appVars>>

\* the effect starts loadImage, at mount and whenever its inputs change.
\* ready is FALSE when CachedImage resolves no URL and when NovelCard finds
\* no global.imageCacheManager.
LoadImage(force, preload, ready) ==
  /\ vPc \in {"mounted", "done"}
  /\ vMounted
  /\ force => vKind # "MarkdownImage"
  /\ preload => vKind \in ServiceKinds
  /\ ~ready => vKind \in {"CachedImage", "NovelCardImage"}
  /\ vForce' = force
  /\ vPreload' = preload
  /\ vCached' = None
  /\ IF ~ready
       THEN /\ vError' = TRUE
            /\ vLoading' = FALSE
            /\ vPc' = "done"
       ELSE /\ vError' = FALSE
            /\ vLoading' = HasLoading(vKind)
            /\ vPc' = IF vKind \in ServiceKinds /\ force THEN "download" ELSE "lookup"
  /\ UNCHANGED <<vKind, vUri, vMounted, mgrVars, svcVars, sweepVars, coordVars, appVars>>

\* await getCachedImagePath(...) comes back
Lookup(result) ==
  /\ vPc = "lookup"
  /\ CanReturn(vKind, result)
  /\ result.path # DefaultPath
  /\ IF vKind \in ServiceKinds
       THEN /\ vCached' = result.path
            /\ IF result.thrown
                 THEN vError' = TRUE /\ vLoading' = FALSE /\ vPc' = "done" /\ UNCHANGED vUri
                 ELSE IF result.path # None
                   THEN /\ vUri' = ShownUri(vKind, result.path)
                        /\ vLoading' = FALSE
                        /\ vPc' = "done"
                        /\ UNCHANGED vError
                   ELSE vPc' = "download" /\ UNCHANGED <<vUri, vLoading, vError>>
       ELSE /\ vCached' = result.path
            /\ vPc' = "download"
            /\ IF result.path # None /\ ~vForce /\ vMounted
                 THEN vUri' = ShownUri(vKind, result.path) /\ vLoading' = FALSE
                 ELSE UNCHANGED <<vUri, vLoading>>
            /\ UNCHANGED vError
  /\ UNCHANGED <<vKind, vForce, vPreload, vMounted, mgrVars, svcVars, sweepVars, coordVars, appVars>>

\* await cacheImage(...) comes back, and the run ends
Download(result) ==
  /\ vPc = "download"
  /\ CanReturn(vKind, result)
  /\ vPc' = "done"
  /\ IF vKind \in ServiceKinds
       THEN IF result.thrown \/ (~vPreload /\ result.path = None)
              THEN vError' = TRUE /\ vLoading' = FALSE /\ UNCHANGED vUri
              ELSE /\ vUri' = IF vPreload THEN vUri ELSE ShownUri(vKind, result.path)
                   /\ vLoading' = FALSE
                   /\ UNCHANGED vError
       ELSE /\ vUri' = IF result.path # None /\ vMounted THEN ShownUri(vKind, result.path) ELSE vUri
            /\ vError' = IF result.path = None /\ vCached = None /\ vMounted THEN TRUE ELSE vError
            /\ vLoading' = IF vMounted THEN FALSE ELSE vLoading
  /\ UNCHANGED <<vKind, vForce, vPreload, vCached, vMounted, mgrVars, svcVars, sweepVars, coordVars, appVars>>

\* the cleanup of MarkdownImage: isMounted.current = false
Unmount ==
  /\ vKind = "MarkdownImage"
  /\ vPc \in {"lookup", "download"}
  /\ vMounted
  /\ vMounted' = FALSE
  /\ UNCHANGED <<vKind, vPc, vForce, vPreload, vCached, vUri, vLoading, vError,
                 mgrVars, svcVars, sweepVars, coordVars, appVars>>

\* ========================================================== keys and paths
\* titles with characters the sanitiser replaces, image names with separators
KeyOwners == {<<"A">>, <<"A", "_", "B">>, <<"A", "?">>, <<"A", "!">>}
KeyNames  == {<<>>, <<"x">>, <<"B", "_", "x">>}
Triples   == {"cover", "content"} \X KeyOwners \X KeyNames

NoOut == [keyL |-> <<>>, keyR |-> <<>>, pathL |-> <<>>, pathR |-> <<>>]

KeyInit ==
  /\ kPc = "idle"
  /\ kLeft = <<"cover", <<"A">>, <<>>>>
  /\ kRight = <<"cover", <<"A">>, <<>>>>
  /\ kOut = NoOut

\* two images are about to be cached
PickTriples(a, b) ==
  /\ kPc \in {"idle", "done"}
  /\ kPc' = "picked"
  /\ kLeft' = a
  /\ kRight' = b
  /\ kOut' = NoOut
  /\ UNCHANGED <<mgrVars, svcVars, sweepVars, coordVars, viewVars, raceVars, mapVars, dlVars, batchVars>>

\* cacheKey = `${type}_${novelTitle}_${imageName}` and getCacheFilePath(...)
\* for both
DeriveBoth ==
  /\ kPc = "picked"
  /\ kPc' = "done"
  /\ kOut' = [keyL  |-> cacheKeyOf(kLeft[1], kLeft[2], kLeft[3]),
              keyR  |-> cacheKeyOf(kRight[1], kRight[2], kRight[3]),
              pathL |-> getCacheFilePath(kLeft[1], kLeft[2], kLeft[3]),
              pathR |-> getCacheFilePath(kRight[1], kRight[2], kRight[3])]
  /\ UNCHANGED <<kLeft, kRight, mgrVars, svcVars, sweepVars, coordVars, viewVars, raceVars, mapVars, dlVars, batchVars>>

\* ===================================================== overlapping loads
RaceKinds == {"useImageCache", "CachedImage", "CachedCoverImage"}
Runs == {1, 2}
NotRace == <<mgrVars, svcVars, sweepVars, coordVars, viewVars, keyVars, mapVars, dlVars, batchVars>>
NoMade == [uri |-> 0, error |-> FALSE]

RaceInit ==
  /\ rKind = "useImageCache"
  /\ rForce = FALSE
  /\ rSrc = 0
  /\ rPc = [i \in Runs |-> "idle"]
  /\ rCached = [i \in Runs |-> FALSE]
  /\ rUri = 0
  /\ rLoading = TRUE
  /\ rError = FALSE
  /\ rMade = [i \in Runs |-> NoMade]

\* where loadImage first suspends: the hook and CachedImage skip the lookup
\* under forceRefresh
FirstAwait(kind, force) ==
  IF kind \in ServiceKinds /\ force THEN "download" ELSE "lookup"

\* the component is mounted with source 1 and its effect starts the first load
RaceMount(kind, force) ==
  /\ rSrc = 0 \/ \A i \in Runs : rPc[i] = "done"
  /\ rKind' = kind
  /\ rForce' = force
  /\ rSrc' = 1
  /\ rPc' = [i \in Runs |-> IF i = 1 THEN FirstAwait(kind, force) ELSE "idle"]
  /\ rCached' = [i \in Runs |-> FALSE]
  /\ rUri' = 0
  /\ rLoading' = TRUE
  /\ rError' = FALSE
  /\ rMade' = [i \in Runs |-> NoMade]
  /\ UNCHANGED NotRace

\* the source changes while the first load is suspended: the effect runs
\* loadImage again (setIsLoading(true), setHasError(false)) and nothing stops
\* the first load; CachedImage also resets its URI to ''
RaceChangeSource ==
  /\ rSrc = 1
  /\ rPc[1] \in {"lookup", "download"}
  /\ rSrc' = 2
  /\ rPc' = [rPc EXCEPT ![2] = FirstAwait(rKind, rForce)]
  /\ rLoading' = TRUE
  /\ rError' = FALSE
  /\ rUri' = IF rKind = "CachedImage" THEN 0 ELSE rUri
  /\ UNCHANGED <<rKind, rForce, rCached, rMade, NotRace>>

\* await getCachedImagePath(...) comes back to the load i
RaceLookup(i, result) ==
  /\ rPc[i] = "lookup"
  /\ result = "throw" => rKind \in ServiceKinds
  /\ rCached' = [rCached EXCEPT ![i] = (result = "hit")]
  /\ IF rKind \in ServiceKinds
       THEN CASE result = "hit" ->
                   /\ rUri' = i
                   /\ rLoading' = FALSE
                   /\ rMade' = [rMade EXCEPT ![i].uri = i]
                   /\ rPc' = [rPc EXCEPT ![i] = "done"]
                   /\ UNCHANGED rError
              [] result = "miss" ->
                   /\ rPc' = [rPc EXCEPT ![i] = "download"]
                   /\ UNCHANGED <<rUri, rLoading, rError, rMade>>
              [] OTHER ->
                   /\ rError' = TRUE
                   /\ rLoading' = FALSE
                   /\ rMade' = [rMade EXCEPT ![i].error = TRUE]
                   /\ rPc' = [rPc EXCEPT ![i] = "done"]
                   /\ UNCHANGED rUri
       ELSE /\ rPc' = [rPc EXCEPT ![i] = "download"]
            /\ IF result = "hit" /\ ~rForce
                 THEN /\ rUri' = i
                      /\ rLoading' = FALSE
                      /\ rMade' = [rMade EXCEPT ![i].uri = i]
                 ELSE UNCHANGED <<rUri, rLoading, rMade>>
            /\ UNCHANGED rError
  /\ UNCHANGED <<rKind, rForce, rSrc, NotRace>>

\* await cacheImage(...) comes back to the load i, which then ends
RaceDownload(i, result) ==
  /\ rPc[i] = "download"
  /\ result = "throw" => rKind \in ServiceKinds
  /\ rPc' = [rPc EXCEPT ![i] = "done"]
  /\ rLoading' = FALSE
  /\ IF result = "ok"
       THEN /\ rUri' = i
            /\ rMade' = [rMade EXCEPT ![i].uri = i]
            /\ UNCHANGED rError
       ELSE /\ rError' = (rKind \in ServiceKinds \/ ~rCached[i] \/ rError)
            /\ rMade' = [rMade EXCEPT ![i].error = (rKind \in ServiceKinds \/ ~rCached[i] \/ @)]
            /\ UNCHANGED rUri
  /\ UNCHANGED <<rKind, rForce, rSrc, rCached, NotRace>>

\* ============================================================ imageCache
\* MAX_IMAGE_CACHE_SIZE = 100, scaled
MAX_IMAGE_CACHE_SIZE == 3

\* the URLs of the images a reader comes across
ImageUrls == {"i1", "i2", "i3", "i4", "i5"}

NotMap == <<mgrVars, svcVars, sweepVars, coordVars, viewVars, keyVars, raceVars, dlVars, batchVars>>

Range(f) == {f[i] : i \in DOMAIN f}

\* new Map<string, boolean>()
MapInit == imageCache = <<>>

\* if (imageCache.size > MAX_IMAGE_CACHE_SIZE) delete the first key, which is
\* truthy for every URL here
cleanImageCache(m) == IF Len(m) > MAX_IMAGE_CACHE_SIZE THEN Tail(m) ELSE m

\* imageCache.set(url, true): a key already present keeps its place
MapSet(m, url) == IF url \in Range(m) THEN m ELSE Append(m, url)

\* an image has loaded: cleanImageCache(); imageCache.set(cleanUrl, true)
ImageLoaded(url) ==
  /\ imageCache' = MapSet(cleanImageCache(imageCache), url)
  /\ UNCHANGED NotMap

\* ====================================================== downloadChapters
\* novel.chapters of the novel asked for
Chapters == {"ch1", "ch2", "ch3"}

NotDl == <<mgrVars, svcVars, sweepVars, coordVars, viewVars, keyVars, raceVars, mapVars, batchVars>>

DlInit ==
  /\ isDownloading = FALSE
  /\ dPc = "idle"
  /\ dExit = "none"
  /\ dStored = {}
  /\ dScan = {}
  /\ dTodo = {}

\* downloadChapters(novelTitle): refused while a download is under way, given
\* up if the novel is unknown, else the confirmation dialog opens
DownloadChapters(found) ==
  /\ dPc \in {"idle", "done"}
  /\ IF isDownloading THEN dPc' = "done" /\ dExit' = "refused"
     ELSE IF ~found THEN dPc' = "done" /\ dExit' = "unknown novel"
     ELSE dPc' = "dialog" /\ dExit' = "none"
  /\ UNCHANGED <<isDownloading, dStored, dScan, dTodo, NotDl>>

\* the dialog is dismissed
DialogCancel ==
  /\ dPc = "dialog"
  /\ dPc' = "done"
  /\ dExit' = "cancelled"
  /\ UNCHANGED <<isDownloading, dStored, dScan, dTodo, NotDl>>

\* onPress of the confirm button: setDownloadProgress({..., isDownloading: true})
DialogConfirm ==
  /\ dPc = "dialog"
  /\ isDownloading' = TRUE
  /\ dScan' = Chapters
  /\ dTodo' = {}
  /\ dPc' = "scan"
  /\ UNCHANGED <<dExit, dStored, NotDl>>

\* one turn of the first loop: getLocalData(contentKey), null when the read
\* fails; a chapter without local content is to be downloaded
ScanChapter(c, readOk) ==
  /\ dPc = "scan"
  /\ c \in dScan
  /\ dScan' = dScan \ {c}
  /\ dTodo' = IF readOk /\ c \in dStored THEN dTodo ELSE dTodo \cup {c}
  /\ UNCHANGED <<isDownloading, dPc, dExit, dStored, NotDl>>

\* if (undownloadedChapters.length === 0) { Alert.alert(...); return; }
ScanEnd ==
  /\ dPc = "scan"
  /\ dScan = {}
  /\ IF dTodo = {} THEN dPc' = "done" /\ dExit' = "all stored"
                   ELSE dPc' = "fetch" /\ dExit' = dExit
  /\ UNCHANGED <<isDownloading, dStored, dScan, dTodo, NotDl>>

\* one turn of the second loop: fetch, response.ok, saveLocalData (which
\* swallows a failed write); a failed fetch is logged and skipped
FetchChapter(c, fetched, saved) ==
  /\ dPc = "fetch"
  /\ c \in dTodo
  /\ dTodo' = dTodo \ {c}
  /\ dStored' = IF fetched /\ saved THEN dStored \cup {c} ELSE dStored
  /\ UNCHANGED <<isDownloading, dPc, dExit, dScan, NotDl>>

\* setDownloadProgress({total: 0, current: 0, isDownloading: false})
FetchEnd ==
  /\ dPc = "fetch"
  /\ dTodo = {}
  /\ isDownloading' = FALSE
  /\ dPc' = "done"
  /\ dExit' = "completed"
  /\ UNCHANGED <<dStored, dScan, dTodo, NotDl>>

\* ========================================================= batched writes
SettingKeys == {"theme", "fontSize"}
SettingValues == {"v1", "v2"}
NoValue == "novalue"
EmptyQueue == [k \in SettingKeys |-> NoValue]

NotBatch == <<mgrVars, svcVars, sweepVars, coordVars, viewVars, keyVars, raceVars, mapVars, dlVars>>

BatchInit ==
  /\ batchWriteQueue = EmptyQueue
  /\ batchWriteTimer = FALSE
  /\ bFlushes = <<>>
  /\ bStorage = EmptyQueue
  /\ bLast = EmptyQueue
  /\ bFailed = FALSE
  /\ bCalls = 0

\* batchSaveLocalData(key, data): queue the value, restart the timer
batchSaveLocalData(k, v) ==
  /\ bCalls < MaxCalls
  /\ bCalls' = bCalls + 1
  /\ batchWriteQueue' = [batchWriteQueue EXCEPT ![k] = v]
  /\ batchWriteTimer' = TRUE
  /\ bLast' = [bLast EXCEPT ![k] = v]
  /\ UNCHANGED <<bFlushes, bStorage, bFailed, NotBatch>>

\* the timeout expires and flushBatchWrites runs up to its await: nothing to
\* do on an empty queue, else the queue's entries go into multiSet
FlushStart ==
  /\ batchWriteTimer
  /\ batchWriteTimer' = FALSE
  /\ bFlushes' = IF batchWriteQueue = EmptyQueue THEN bFlushes
                 ELSE Append(bFlushes, batchWriteQueue)
  /\ UNCHANGED <<batchWriteQueue, bStorage, bLast, bFailed, bCalls, NotBatch>>

\* await AsyncStorage.multiSet(operations) comes back; batchWriteQueue.clear()
\* follows success and failure alike
FlushEnd(ok) ==
  /\ bFlushes # <<>>
  /\ bFlushes' = Tail(bFlushes)
  /\ bStorage' = IF ok THEN [k \in SettingKeys |->
                              IF Head(bFlushes)[k] # NoValue THEN Head(bFlushes)[k] ELSE bStorage[k]]
                       ELSE bStorage
  /\ bFailed' = (bFailed \/ ~ok)
  /\ batchWriteQueue' = EmptyQueue
  /\ UNCHANGED <<batchWriteTimer, bLast, bCalls, NotBatch>>

\* =========================================================== specifications
AppInit == KeyInit /\ RaceInit /\ MapInit /\ DlInit /\ BatchInit

Init == MgrInit /\ SvcInit /\ SweepIdle /\ CoordInit /\ ViewInit /\ AppInit

Next ==
  \/ \E path \in PathStrs : DeleteOutOfBand(path)
  \/ \E p \in Procs, k \in Keys : StartCacheImage(p, UrlOf(p), k)
  \/ \E p \in Procs : CacheImageStep(p)
  \/ \E p \in Procs, k \in Keys : StartGetCachedImagePath(p, k)
  \/ \E p \in Procs : GetPathStep(p)
  \/ \E p \in Procs, title \in Titles : StartClearNovelCache(p, title)
  \/ \E p \in Procs : ClearStep(p)
  \/ \E p \in Procs : StartGetCacheStats(p)
  \/ \E p \in Procs : StatsStep(p)

Spec == Init /\ [][Next]_vars

NextService ==
  \/ \E url \in SvcUrls, useDefaultOnError \in BOOLEAN : SvcCacheImage(url, useDefaultOnError)
  \/ SvcEnsureDirs
  \/ \E ok \in BOOLEAN : SvcAttempt(ok)
  \/ SvcWait
  \/ SvcStore

SpecService == Init /\ [][NextService]_vars

\* every download attempt and every delay comes to an end
SpecServiceFair ==
  /\ Init
  /\ [][NextService]_vars
  /\ WF_vars(\E ok \in BOOLEAN : SvcAttempt(ok))
  /\ WF_vars(SvcWait)
  /\ WF_vars(SvcEnsureDirs)
  /\ WF_vars(SvcStore)

NextSweep ==
  \/ SweepStart
  \/ \E ok \in BOOLEAN : SweepEvict(ok)
  \/ SweepStop
  \/ SweepSave

InitSweep == MgrInit /\ SvcInit /\ SweepInit /\ CoordInit /\ ViewInit /\ AppInit

SpecSweep == InitSweep /\ [][NextSweep]_vars

NextAge ==
  \/ \E t \in SweepTimes : AgeSweepStart(t)
  \/ \E ok \in BOOLEAN : AgeSweepVisit(ok)
  \/ AgeSweepStop
  \/ SweepSave

SpecAge == InitSweep /\ [][NextAge]_vars

NextDetached ==
  \/ \E p \in Procs, k \in Keys : CoordCacheImage(p, k)
  \/ \E p \in Procs, ok \in BOOLEAN, size \in CoordSizes : CoordDownload(p, ok, size)
  \/ \E p \in Procs : CoordRead(p)
  \/ \E p \in Procs, t \in 0..MaxTime : CoordWrite(p, t)
  \/ \E p \in Procs : CheckStart(p)
  \/ \E p \in Procs, ok \in BOOLEAN : CheckEvict(p, ok)
  \/ \E p \in Procs : CheckSave(p)

SpecDetached == Init /\ [][NextDetached]_vars

\* the operations of the coordinator run one after the other
NextCoordinator ==
  \/ \E k \in Keys : CoordDeleteOutOfBand(k)
  \/ \E p \in Procs, k \in Keys : ~Busy /\ CoordCacheImage(p, k)
  \/ \E p \in Procs, ok \in BOOLEAN, size \in CoordSizes : CoordDownload(p, ok, size)
  \/ \E p \in Procs : CoordRead(p)
  \/ \E p \in Procs, t \in 0..MaxTime : CoordWrite(p, t)
  \/ \E p \in Procs : ~Busy /\ CheckStart(p)
  \/ \E p \in Procs, ok \in BOOLEAN : CheckEvict(p, ok)
  \/ \E p \in Procs : CheckSave(p)
  \/ \E p \in Procs, k \in Keys : ~Busy /\ CoordGetCachedPath(p, k)
  \/ \E p \in Procs, owner \in Titles, failed \in SUBSET Keys :
       ~Busy /\ CoordClearOwnerCache(p, owner, failed)
  \/ \E p \in Procs : ~Busy /\ ClearAllStart(p)
  \/ \E p \in Procs, ok \in BOOLEAN : ClearAllDeleteDir(p, ok)
  \/ \E p \in Procs : ClearAllClearMeta(p)
  \/ \E p \in Procs, t \in SweepTimes, failed \in SUBSET Keys : CoordAgeSweep(p, t, failed)

SpecCoordinator == Init /\ [][NextCoordinator]_vars

\* the operations that may or may not rewrite the metadata: either the sweeps
\* run over a store left by earlier writes, or tasks cache and clear
NextNoOp ==
  \/ calls = 0 /\ NextSweep
  \/ calls = 0 /\ NextAge
  \/ \E p \in Procs, k \in Keys : entries = <<>> /\ wPc = "idle" /\ StartCacheImage(p, UrlOf(p), k)
  \/ \E p \in Procs : CacheImageStep(p)
  \/ \E p \in Procs, title \in Titles :
       entries = <<>> /\ wPc = "idle" /\ StartClearNovelCache(p, title)
  \/ \E p \in Procs : ClearStep(p)

SpecNoOp == InitSweep /\ [][NextNoOp]_vars

NextKeys ==
  \/ \E a \in Triples, b \in Triples : PickTriples(a, b)
  \/ DeriveBoth

SpecKeys == Init /\ [][NextKeys]_vars

NextRace ==
  \/ \E kind \in RaceKinds, force \in BOOLEAN : RaceMount(kind, force)
  \/ RaceChangeSource
  \/ \E i \in Runs, result \in {"hit", "miss", "throw"} : RaceLookup(i, result)
  \/ \E i \in Runs, result \in {"ok", "fail", "throw"} : RaceDownload(i, result)

SpecRace == Init /\ [][NextRace]_vars

NextMap == \E url \in ImageUrls : ImageLoaded(url)

SpecMap == Init /\ [][NextMap]_vars

NextDownload ==
  \/ \E found \in BOOLEAN : DownloadChapters(found)
  \/ DialogCancel
  \/ DialogConfirm
  \/ \E c \in Chapters, readOk \in BOOLEAN : ScanChapter(c, readOk)
  \/ ScanEnd
  \/ \E c \in Chapters, fetched \in BOOLEAN, saved \in BOOLEAN : FetchChapter(c, fetched, saved)
  \/ FetchEnd

SpecDownload == Init /\ [][NextDownload]_vars

NextBatch ==
  \/ \E k \in SettingKeys, v \in SettingValues : batchSaveLocalData(k, v)
  \/ FlushStart
  \/ \E ok \in BOOLEAN : FlushEnd(ok)

SpecBatch == Init /\ [][NextBatch]_vars

NextConsumer ==
  \/ \E kind \in Kinds : Mount(kind)
  \/ \E force \in BOOLEAN, preload \in BOOLEAN, ready \in BOOLEAN : LoadImage(force, preload, ready)
  \/ \E result \in ViewResults : Lookup(result)
  \/ \E result \in ViewResults : Download(result)
  \/ Unmount

SpecConsumer == Init /\ [][NextConsumer]_vars

\* ===================================================================== claims
IsDone(p, name) == pc[p] = "done" /\ op[p].name = name
HasRecord(k)    == store[KeyStr(k)] # NoRec
HasFile(k)      == files[PathOf(k)] # NoFile

\* C1 (cache-then-hit): a lookup that ran entirely after its key was cached
\* successfully, with no clear in between and no I/O failure or outside
\* deletion at all, returns the path cacheImage returned.
C1_CacheThenHit ==
  \A p \in Procs :
    (IsDone(p, "getCachedImagePath") /\ sawFresh[p] /\ ~faulted)
      => res[p].path = PathOf(op[p].key)

\* C2 as stated (self-heal): the write that ends a self-healing lookup always
\* leaves the key without a record in the persisted store.
C2_SelfHealAlwaysRemoves ==
  [][\A p \in Procs :
       (pc[p] = "gp_save" /\ pc'[p] = "done") => store'[KeyStr(op[p].key)] = NoRec]_vars

\* C2 as amended (self-heal): a lookup that finds its record's file missing
\* returns none; when its metadata write succeeds the persisted store no longer
\* holds the key, when the write fails the lookup still returns none; and
\* getCacheStats never counts a record whose file is missing.
C2_SelfHeal ==
  [][\A p \in Procs :
       /\ (pc[p] = "gp_info" /\ pc'[p] # "gp_info"
             /\ files[metadata[p][KeyStr(op[p].key)].path] = NoFile)
            => res'[p].path = None
       /\ (pc[p] = "gp_save" /\ pc'[p] = "done")
            => /\ res'[p].path = None
               /\ GetPathSave(p, TRUE) => store'[KeyStr(op[p].key)] = NoRec
       /\ \A ks \in KeyStrs :
            (pc[p] = "st_loop" /\ ks \in todo[p] /\ ks \notin todo'[p]
               /\ files[metadata[p][ks].path] = NoFile)
              => res'[p] = res[p]]_vars

\* a lookup has found its record, found the file gone, and is about to write
C2_Witness ==
  \E p \in Procs :
    /\ pc[p] = "gp_save"
    /\ HasRecord(op[p].key)
    /\ ~HasFile(op[p].key)
    /\ metadata[p][KeyStr(op[p].key)] = NoRec

\* C3 (distinct keys are independent): once two cacheImage calls for different
\* keys have both returned their path, with no clear or failure since, the
\* metadata store holds a record for each of the two keys.
C3_DistinctKeysIndependent ==
  \A p, q \in Procs :
    (/\ p # q
     /\ IsDone(p, "cacheImage") /\ IsDone(q, "cacheImage")
     /\ op[p].key # op[q].key
     /\ {op[p].key, op[q].key} \subseteq fresh
     /\ ~faulted)
      => HasRecord(op[p].key) /\ HasRecord(op[q].key)

\* C4 (same key, last write wins): when a cacheImage completes its metadata
\* write while another cacheImage for the same key has already completed its
\* own (no I/O failure, clear or outside deletion so far), the store then holds exactly the writer's record for the key (its url,
\* its timestamp, the key's path) and the destination holds a downloaded image.
C4_SameKeyLastWriteWins ==
  [][\A p, q \in Procs :
       (/\ p # q
        /\ CacheImageSave(p, TRUE)
        /\ IsDone(q, "cacheImage") /\ op[q].key = op[p].key
        /\ res[q].path # None
        /\ op[q].key \in fresh /\ ~faulted)
         => /\ store'[KeyStr(op[p].key)] = metadata[p][KeyStr(op[p].key)]
            /\ store'[KeyStr(op[p].key)].url = op[p].url
            /\ store'[KeyStr(op[p].key)].path = res'[p].path
            /\ res'[p].path = res[q].path
            /\ files'[res'[p].path] \in Urls]_vars

\* the later writer took its timestamp before the stored record's writer did:
\* the two calls overlapped, and the older timestamp is about to win
C4_Witness ==
  \E p, q \in Procs :
    /\ p # q
    /\ pc[p] = "ci_save"
    /\ IsDone(q, "cacheImage") /\ op[q].key = op[p].key /\ res[q].path # None
    /\ ~faulted
    /\ store[KeyStr(op[p].key)].url = op[q].url
    /\ store[KeyStr(op[p].key)].timestamp > metadata[p][KeyStr(op[p].key)].timestamp

\* C5 (owner-scoped clear): no step of clearNovelCache(A) changes the record or
\* the file of a key whose owner is not A.
C5_OwnerScopedClear ==
  [][\A p \in Procs :
       ClearStep(p) =>
         \A k \in Keys :
           k[2] # op[p].title =>
             /\ store'[KeyStr(k)] = store[KeyStr(k)]
             /\ files'[PathOf(k)] = files[PathOf(k)]]_vars

\* C6 (metadata/file invariant): with no call in progress, no I/O failure, no
\* outside deletion and no error body on disk, a key has a record exactly when
\* its file exists.
C6_RecordIffFile ==
  (Quiescent /\ ~faulted /\ \A path \in PathStrs : files[path] # ErrBody)
    => \A k \in Keys : HasRecord(k) <=> HasFile(k)

\* C7 (retry exhaustion falls back): a finished call with useDefaultOnError
\* whose primary URL never succeeded and whose placeholder never failed made
\* exactly RetryCount attempts on the primary URL, all before one single
\* placeholder download, and returned the path with a record stored.
C7_RetryExhaustionFallsBack ==
  (/\ sPc = "done"
   /\ sCall.useDefaultOnError /\ sCall.url # DefaultImageUrl
   /\ ~Succeeded(sCall.url)
   /\ \A i \in AttemptsOn(DefaultImageUrl) : sTries[i].ok)
    => /\ Cardinality(AttemptsOn(sCall.url)) = RetryCount
       /\ Cardinality(AttemptsOn(DefaultImageUrl)) = 1
       /\ \A i \in AttemptsOn(sCall.url), j \in AttemptsOn(DefaultImageUrl) : i < j
       /\ sResult = "path"
       /\ sRecord = DefaultImageUrl

C7_Witness ==
  /\ sPc = "done"
  /\ sCall.useDefaultOnError /\ sCall.url = "u1"
  /\ Len(sTries) = RetryCount + 1
  /\ sTries[Len(sTries)] = [url |-> DefaultImageUrl, ok |-> TRUE]
  /\ sResult = "path"

\* C8 (bounded retry): at most RetryCount attempts per URL; a success is always
\* the last attempt made; each retry comes after exactly one delay, the delays
\* are positive and strictly increasing; failure is reported only after
\* RetryCount failed attempts.
C8_BoundedRetry ==
  /\ sAttempt <= RetryCount
  /\ \A u \in SvcUrls : Cardinality(AttemptsOn(u)) <= RetryCount
  /\ \A i \in 1..Len(sTries) : sTries[i].ok => i = Len(sTries)
  /\ sPc = "attempt" => (Len(sWaits) = sAttempt /\ sAttempt < RetryCount)
  /\ sPc \in {"wait", "store", "done"} => Len(sWaits) = sAttempt - 1
  /\ \A i \in 1..Len(sWaits) : sWaits[i] > 0
  /\ \A i \in 1..Len(sWaits), j \in 1..Len(sWaits) : i < j => sWaits[i] < sWaits[j]
  /\ (sPc = "done" /\ sResult = "none") =>
        /\ sAttempt = RetryCount
        /\ \A i \in 1..Len(sTries) : ~sTries[i].ok

\* the third attempt of a URL is about to run after two growing delays
C8_Witness ==
  /\ sPc = "attempt"
  /\ sAttempt = RetryCount - 1
  /\ Len(sWaits) = 2
  /\ sWaits[1] < sWaits[2]

\* C9 (fallback terminates): a call falls back at most once, and only if it
\* was made with useDefaultOnError for a URL other than the placeholder; a
\* call none of whose downloads succeeded returns none; every call ends.
C9_FallbackTerminates ==
  /\ [](/\ sFallbacks <= 1
        /\ sFallbacks = 1 => (sCall.useDefaultOnError /\ sCall.url # DefaultImageUrl)
        /\ (sPc = "done" /\ \A i \in 1..Len(sTries) : ~sTries[i].ok) => sResult = "none")
  /\ (sPc \notin {"idle", "done"}) ~> (sPc = "done")

\* the placeholder was tried and failed as well
C9_Witness ==
  /\ sPc = "done"
  /\ sFallbacks = 1
  /\ Cardinality(AttemptsOn(DefaultImageUrl)) = RetryCount
  /\ sResult = "none"

\* C10 (size eviction hysteresis): a finished sweep of a store above the
\* maximum leaves at most the target; what it deleted is no newer than what it
\* kept, and its newest deletion was needed to reach the target; a sweep of a
\* store within the maximum deletes nothing.
C10_SizeSweepHysteresis ==
  wPc = "done" =>
    LET deleted == {i \in 1..Len(wInput) : wInput[i].id \in wDeleted}
        kept    == {i \in 1..Len(wInput) : wInput[i].id \notin wDeleted}
    IN  IF SumSizes(wInput) > MaxFileCacheSize
          THEN /\ entries = Without(wInput, wDeleted)
               /\ SumSizes(entries) <= SweepTarget
               /\ \A d \in deleted, k \in kept : wInput[d].timestamp <= wInput[k].timestamp
               /\ \E d \in deleted :
                    /\ \A e \in deleted : wInput[e].timestamp <= wInput[d].timestamp
                    /\ SumSizes(entries) + wInput[d].size > SweepTarget
          ELSE /\ wDeleted = {}
               /\ entries = wInput

\* a sweep evicted a record stored later than one it kept
C10_Witness ==
  /\ wPc = "done"
  /\ SumSizes(wInput) > MaxFileCacheSize
  /\ entries # <<>>
  /\ \E d \in wDeleted : \E i \in 1..Len(entries) : entries[i].id < d

\* C11 (age eviction): a finished age sweep run at time now has removed
\* exactly the records with timestamp < now - MaxFileCacheAge: every other
\* record, the one with timestamp = now - MaxFileCacheAge included, is still
\* stored, in its place.
C11_AgeSweepExact ==
  wPc = "done" =>
    /\ \A i \in 1..Len(wInput) :
         (wInput[i].id \in wDeleted) <=> (wInput[i].timestamp < now - MaxFileCacheAge)
    /\ entries = SelectSeq(wInput, LAMBDA e : e.timestamp >= now - MaxFileCacheAge)
    /\ \A i \in 1..Len(wInput) :
         wInput[i].timestamp = now - MaxFileCacheAge =>
           \E j \in 1..Len(entries) : entries[j] = wInput[i]

\* an age sweep removed an expired record and kept one exactly at the boundary
C11_Witness ==
  /\ wPc = "done"
  /\ wDeleted # {}
  /\ \E j \in 1..Len(entries) : entries[j].timestamp = now - MaxFileCacheAge
  /\ Len(entries) < Len(wInput)

\* C12 (failure absorption): no call of cacheImage, getCachedImagePath,
\* clearNovelCache or getCacheStats ever ends by throwing; a non-200 status or
\* a throw of the download, of the check or creation of the file's directory
\* or of a stat ends cacheImage and getCachedImagePath with none; a failed file deletion or stat inside the
\* loops of clearNovelCache and getCacheStats leaves the call running with its
\* count unchanged; every finished call holds a result of its own kind.
C12_FailureAbsorption ==
  [][\A p \in Procs :
       /\ ~res'[p].thrown
       /\ ( \/ \E io \in {x \in DirIO : ~x.subInfo \/ ~x.subMake} :
                 pc'[p] # "ci_download" /\ CacheImageEnsureDirs(p, io)
            \/ \E outcome \in {"status_body", "status", "throw"} : CacheImageDownload(p, outcome)
            \/ GetPathInfo(p, FALSE) )
            => (pc'[p] = "done" /\ res'[p] = NoRes)
       /\ \A ks \in KeyStrs :
            (ClearDelete(p, ks, FALSE) \/ StatsInfo(p, ks, FALSE))
              => (pc'[p] = pc[p] /\ res'[p] = res[p])
       /\ pc'[p] = "done" =>
            /\ op'[p].name \in {"cacheImage", "getCachedImagePath"}
                 => (res'[p].path \in {None, PathOf(op'[p].key)} /\ res'[p].n = 0 /\ res'[p].size = 0)
            /\ op'[p].name \in {"clearNovelCache", "getCacheStats"}
                 => (res'[p].path = None /\ res'[p].n \in 0..Cardinality(KeyStrs))]_vars

\* a lookup came back with none although the record and its file are there:
\* the stat or the read behind it failed and was absorbed
C12_Witness ==
  \E p \in Procs :
    /\ IsDone(p, "getCachedImagePath")
    /\ res[p] = NoRes
    /\ HasRecord(op[p].key) /\ HasFile(op[p].key)
    /\ faulted

\* C13 (corrupt metadata is an empty store): when the metadata read fails
\* (getItem or JSON.parse throws) or nothing is stored, getCachedImagePath
\* returns none at once, and getCacheStats and clearNovelCache find nothing to
\* visit, touch no file, write nothing and return zero counts; none throws.
C13_CorruptMetadataIsEmpty ==
  [][\A p \in Procs :
       /\ (GetPathRead(p, FALSE) \/ (store = EmptyMeta /\ GetPathRead(p, TRUE)))
            => (pc'[p] = "done" /\ res'[p] = NoRes)
       /\ (StatsRead(p, FALSE) \/ ClearRead(p, FALSE)
             \/ (store = EmptyMeta /\ (StatsRead(p, TRUE) \/ ClearRead(p, TRUE))))
            => (metadata'[p] = EmptyMeta /\ todo'[p] = {} /\ res'[p] = NoRes)
       /\ (pc[p] \in {"st_loop", "cl_loop"} /\ metadata[p] = EmptyMeta /\ res[p].n = 0
             /\ pc'[p] # pc[p])
            => /\ pc'[p] = "done"
               /\ res'[p] = NoRes
               /\ store' = store /\ files' = files]_vars

\* a statistics or clear call runs on the empty mapping while records and
\* files are stored
C13_Witness ==
  \E p \in Procs :
    /\ pc[p] \in {"st_loop", "cl_loop"}
    /\ metadata[p] = EmptyMeta
    /\ res[p].n = 0
    /\ \E k \in Keys : HasRecord(k) /\ HasFile(k)

\* C14 (partial bulk-clear failure): every turn of the loop of clearNovelCache
\* takes one entry off the list and leaves the call running; the entry's
\* record leaves the working copy and the count grows by one exactly when its
\* file was deleted, and no other entry of the copy changes; the call ends
\* only with the list empty, returns that count, and a successful metadata
\* write stores exactly the working copy (nothing is written for a count of 0).
C14_PartialClearFailure ==
  [][\A p \in Procs :
       /\ \A ks \in KeyStrs :
            (pc[p] = "cl_loop" /\ ks \in todo[p] /\ ks \notin todo'[p]) =>
              LET path == metadata[p][ks].path
                  deleted == files[path] # NoFile /\ files'[path] = NoFile
              IN  /\ pc'[p] = "cl_loop"
                  /\ todo'[p] = todo[p] \ {ks}
                  /\ \A other \in KeyStrs \ {ks} : metadata'[p][other] = metadata[p][other]
                  /\ \A other \in PathStrs \ {path} : files'[other] = files[other]
                  /\ IF deleted
                       THEN metadata'[p][ks] = NoRec /\ res'[p].n = res[p].n + 1
                       ELSE metadata'[p][ks] = metadata[p][ks] /\ res'[p].n = res[p].n
       /\ (pc[p] = "cl_loop" /\ pc'[p] = "done") =>
            /\ todo[p] = {}
            /\ res'[p].n = res[p].n
            /\ (res[p].n > 0 /\ ClearFinish(p, TRUE)) => store' = metadata[p]
            /\ res[p].n = 0 => store' = store]_vars

\* a clear has visited all its entries: one file was deleted, the deletion of
\* another failed and its record is still in the copy about to be written
C14_Witness ==
  \E p \in Procs :
    /\ pc[p] = "cl_loop"
    /\ todo[p] = {}
    /\ res[p].n = 1
    /\ \E ks \in KeyStrs :
         /\ Includes(ks, op[p].title)
         /\ metadata[p][ks] # NoRec
         /\ files[metadata[p][ks].path] # NoFile

\* C15 (per-key lifecycle): a key's record appears in the store only by the
\* metadata write of a cacheImage for that key, and disappears only by the
\* write of a clearNovelCache naming the key's owner or of a getCachedImagePath
\* for that key.
C15_PerKeyLifecycle ==
  [][\A k \in Keys :
       /\ (store[KeyStr(k)] = NoRec /\ store'[KeyStr(k)] # NoRec) =>
            \E p \in Procs : pc[p] = "ci_save" /\ pc'[p] = "done" /\ op[p].key = k
       /\ (store[KeyStr(k)] # NoRec /\ store'[KeyStr(k)] = NoRec) =>
            \E p \in Procs :
              \/ pc[p] = "cl_loop" /\ pc'[p] = "done" /\ op[p].title = k[2]
              \/ pc[p] = "gp_save" /\ pc'[p] = "done" /\ op[p].key = k]_vars

\* C16 (getCacheStats counts): getCacheStats visits exactly the records of
\* the mapping it read; a visit adds one file and the file's size when the stat
\* succeeds and the file exists, and adds nothing when the stat throws or the
\* file is missing, the call going on either way; the call returns the sums
\* and no step of it changes the metadata store or a file.
C16_StatsCounts ==
  [][\A p \in Procs :
       /\ StatsStep(p) => (store' = store /\ files' = files /\ ~res'[p].thrown)
       /\ StatsRead(p, TRUE) =>
            (todo'[p] = {ks \in KeyStrs : store[ks] # NoRec} /\ res'[p] = NoRes)
       /\ \A ks \in KeyStrs :
            (pc[p] = "st_loop" /\ ks \in todo[p] /\ ks \notin todo'[p]) =>
              LET path == metadata[p][ks].path IN
              /\ pc'[p] = "st_loop"
              /\ todo'[p] = todo[p] \ {ks}
              /\ IF StatsInfo(p, ks, TRUE) /\ files[path] # NoFile
                   THEN /\ res'[p].n = res[p].n + 1
                        /\ res'[p].size = res[p].size + SizeOf(files[path])
                   ELSE res'[p] = res[p]
       /\ (pc[p] = "st_loop" /\ pc'[p] = "done") =>
            (todo[p] = {} /\ res'[p] = res[p])]_vars

\* statistics over two records ended with one file counted: the other file
\* was missing or could not be stat-ed
C16_Witness ==
  \E p \in Procs :
    /\ pc[p] = "st_loop"
    /\ todo[p] = {}
    /\ Cardinality({ks \in KeyStrs : metadata[p][ks] # NoRec}) = 2
    /\ res[p].n = 1
    /\ res[p].size > 0

\* C17 (clearAll empties everything): when a clearAll has returned without
\* error and nothing else has run since it began, the memory cache is empty,
\* the metadata store holds no record, no cached file remains, getCachedPath
\* finds nothing for any key and getStats counts zero files; a clearAll that
\* could not delete the directory reports the error and leaves the store.
C17_ClearAllEmpties ==
  /\ \A p \in Procs :
       (cTask[p].name = "clearAll" /\ cTask[p].pc = "done" /\ ~cRes[p].error /\ cAlone = p)
         => /\ cMemory = {}
            /\ cMeta = <<>>
            /\ cFiles = {}
            /\ \A k \in Keys : MemoryLookup(k) = None
            /\ StatsFileCount = 0
  /\ \A p \in Procs : cRes[p].error => cTask[p].name = "clearAll"

\* a clearAll has gone through after another task had cached an image
C17_Witness ==
  \E p, q \in Procs :
    /\ cTask[p].name = "clearAll" /\ cTask[p].pc = "done" /\ ~cRes[p].error /\ cAlone = p
    /\ cTask[q].name = "cacheImage" /\ cRes[q].path # None
    /\ cMeta = <<>> /\ cFiles = {} /\ cMemory = {}

\* C18 (the memory cache is a pure short-circuit): after any sequence of
\* operations run one after the other (no call or size check in progress, no
\* file removed from outside), getCachedPath answers for every key what the
\* metadata store and the file check alone answer.
C18_MemoryIsShortCircuit ==
  (AllQuiet /\ ~cDisturbed) => \A k \in Keys : MemoryLookup(k) = StoreLookup(k)

\* C19 (detached size check, bounded overshoot): once every cacheImage and
\* every size check it triggered has finished, the sizes recorded in the
\* metadata store add up to at most MaxFileCacheSize; a cacheImage returns
\* its path with its size check still to run.
C19_DetachedSizeCheck ==
  /\ AllQuiet => SumSizes(cMeta) <= MaxFileCacheSize
  /\ \A p \in Procs :
       (cTask[p].name = "cacheImage" /\ cTask[p].pc = "done" /\ cSweep[p].pc = "start")
         => cRes[p].path = PathOf(cTask[p].key)

\* a cacheImage has returned its path while the recorded sizes exceed the
\* maximum and its size check has not started
C19_Witness ==
  \E p \in Procs :
    /\ cTask[p].name = "cacheImage" /\ cTask[p].pc = "done"
    /\ cRes[p].path # None
    /\ cSweep[p].pc = "start"
    /\ SumSizes(cMeta) > MaxFileCacheSize

\* C20 (a failed image never blocks the consumer): every load run of a mounted
\* display consumer that is not preload-only ends with the loading flag false
\* and with a non-empty image URI or the error flag set.
C20_FailedImageNeverBlocks ==
  (vPc = "done" /\ vMounted /\ ~vPreload) => (~vLoading /\ (vUri # None \/ vError))

\* C21 (no-op operations do not rewrite storage): a clearNovelCache that
\* deleted nothing leaves the stored metadata as it is, and one that deleted
\* something writes its working copy, the records it read less the deleted
\* ones, unless the write fails; a sweep that deleted nothing performs no write
\* and one that deleted something writes exactly the surviving records.
C21_NoOpDoesNotRewrite ==
  [][ /\ \A p \in Procs :
           (pc[p] = "cl_loop" /\ pc'[p] = "done") =>
             /\ res[p].n = 0 => store' = store
             /\ (res[p].n > 0 /\ ~faulted') => store' = metadata[p]
      /\ (wPc = "save" /\ wPc' = "done") =>
           /\ wDeleted = {} => (wWrites' = wWrites /\ entries' = entries)
           /\ wDeleted # {} => (wWrites' = wWrites + 1 /\ entries' = Without(wInput, wDeleted))
    ]_vars

\* a clear that matched nothing has returned with 0 and without any failure
\* while the store holds a record
C21_Witness ==
  \E p \in Procs : /\ pc[p] = "done" /\ op[p].name = "clearNovelCache" /\ res[p].n = 0
                   /\ store # EmptyMeta /\ ~faulted

\* C22 (directory before download): a cacheImage run is at its download only
\* while the cache root and the directory of its file exist; a run whose
\* directory check or creation fails returns none without having touched any
\* file; and files are written only by a run that is at its download.
C22_DirectoryBeforeDownload ==
  [][ /\ \A p \in Procs :
           /\ pc'[p] = "ci_download" => {"images", DirOf(op'[p].key[1])} \subseteq dirs'
           /\ (pc[p] = "ci_ensure" /\ pc'[p] = "done") =>
                (res'[p].path = None /\ files' = files /\ store' = store)
      /\ \A path \in PathStrs :
           (files'[path] # files[path] /\ files'[path] # NoFile) =>
             \E p \in Procs : pc[p] = "ci_download" /\ PathOf(op[p].key) = path
    ]_vars

\* a run has reached its download although ensureCacheDir failed
C22_Witness ==
  \E p \in Procs : pc[p] = "ci_download" /\ faulted /\ calls = 1

\* C23 (deterministic path, overwrite in place): every record under a key, in
\* the store and in every task's working copy, carries the path derived from
\* that key's (type, novelTitle, imageName); a cacheImage that stores its
\* record returns that path, which is the path of the record it replaces, and
\* its download wrote no file but the one at that path.
C23_DeterministicPath ==
  [][ /\ \A k \in Keys :
           /\ store'[KeyStr(k)] # NoRec => store'[KeyStr(k)].path = PathOf(k)
           /\ \A p \in Procs :
                metadata'[p][KeyStr(k)] # NoRec => metadata'[p][KeyStr(k)].path = PathOf(k)
      /\ \A p \in Procs :
           /\ (pc[p] = "ci_save" /\ pc'[p] = "done") =>
                /\ res'[p].path = getCacheFilePath(op[p].key[1], op[p].key[2], op[p].key[3])
                /\ store[KeyStr(op[p].key)] # NoRec => store[KeyStr(op[p].key)].path = res'[p].path
           /\ (pc[p] = "ci_download" /\ pc'[p] # "ci_download") =>
                \A path \in PathStrs \ {PathOf(op[p].key)} : files'[path] = files[path]
    ]_vars

\* the same key has been cached twice, by two calls one after the other, and
\* the record of the second has replaced that of the first
C23_Witness ==
  \E p, q \in Procs :
    /\ p # q
    /\ IsDone(p, "cacheImage") /\ IsDone(q, "cacheImage")
    /\ op[p].key = op[q].key
    /\ res[p].path = PathOf(op[p].key) /\ res[q].path = res[p].path
    /\ store[KeyStr(op[p].key)].url = op[p].url
    /\ files[res[p].path] = op[p].url
    /\ ~faulted

\* C24 (a failed cacheImage changes nothing): the step in which a download
\* ends with a status other than 200 or with a throw ends the call with none,
\* writes no metadata and leaves every file, the key's earlier one included,
\* as it was.
C24_FailedCacheImageChangesNothing ==
  [][\A p \in Procs :
       (pc[p] = "ci_download" /\ pc'[p] = "done") =>
         (res'[p].path = None /\ store' = store /\ files' = files)]_vars

\* C25 (key and path injectivity): two different (type, novelTitle, imageName)
\* triples get different cache-key strings and different file paths.
C25_KeyAndPathInjective ==
  (kPc = "done" /\ kLeft # kRight) =>
    (kOut.keyL # kOut.keyR /\ kOut.pathL # kOut.pathR)

\* C26 (clear and self-heal do not disturb other keys under interleaving): the
\* metadata write that ends a clearNovelCache(A) leaves the record of every
\* key that does not contain A as the store holds it, and the write of a
\* self-healing getCachedImagePath(k) leaves the record of every key but k as
\* the store holds it: neither drops a record written, nor restores a record
\* deleted, by another operation since its own read.
C26_ClearAndHealKeepOtherKeys ==
  [][\A p \in Procs :
       /\ (pc[p] = "cl_loop" /\ pc'[p] = "done") =>
            \A ks \in KeyStrs : ~Includes(ks, op[p].title) => store'[ks] = store[ks]
       /\ (pc[p] = "gp_save" /\ pc'[p] = "done") =>
            \A ks \in KeyStrs \ {KeyStr(op[p].key)} : store'[ks] = store[ks]]_vars

\* C27 (latest request wins at the consumer): when the source changed while
\* the first load was in flight and both loads have ended, the error flag is
\* the one the load for the latest source set, and the URI that load set, if
\* it set one, is the URI displayed.
C27_LatestRequestWins ==
  (rSrc = 2 /\ \A i \in Runs : rPc[i] = "done") =>
    /\ rError = rMade[2].error
    /\ rMade[2].uri # 0 => rUri = rMade[2].uri

\* C28 (bounded in-memory image map): after every image load the imageCache
\* map holds at most MAX_IMAGE_CACHE_SIZE keys, and a key that leaves the map
\* is the one inserted earliest.
C28_BoundedImageMap ==
  [][ /\ Len(imageCache') <= MAX_IMAGE_CACHE_SIZE
      /\ \A url \in Range(imageCache) \ Range(imageCache') : url = Head(imageCache)
    ]_vars

\* C29 (the chapter-download flag is always released): a call made while
\* isDownloading is true is refused, and whenever no download run is under way
\* isDownloading is false, so that the next download can start.
C29_DownloadFlagReleased ==
  /\ dExit = "refused" => isDownloading
  /\ dPc \in {"idle", "dialog", "done"} => ~isDownloading

\* C30 (batched settings writes lose nothing): once no timeout is armed and no
\* flush is suspended, and no multiSet has failed, storage holds for every key
\* the value of the last batchSaveLocalData call for it.
C30_BatchedWritesLastWins ==
  (~batchWriteTimer /\ bFlushes = <<>> /\ ~bFailed) =>
    \A k \in SettingKeys : bLast[k] # NoValue => bStorage[k] = bLast[k]

====
